---------------------------- MODULE Spec2Model ----------------------------
(***************************************************************************)
(* Model of the Confluence indexing pipeline's HTML processor              *)
(* (src/chromadb_function/fetching/html_processor.py): DocumentChunker     *)
(* and HtmlProcessor.process_pages.                                        *)
(*                                                                         *)
(* Representation.  An HTML string is the forest it parses to: a sequence  *)
(* of nodes, a node being a text node (NavigableString) or a tag with its  *)
(* children.  String concatenation of serialised elements is the           *)
(* concatenation of forests.  A text is a sequence of words; a word        *)
(* carries an identity (its position in the source document), the number   *)
(* of tokens the tokenizer charges for it, whether it ends with one of     *)
(* . ! ? (so that (?<=[.!?])\s+ splits right after it), and whether it is  *)
(* a link placeholder <[..]/>.  The tokenizer is the sum of the word       *)
(* costs.  Text nodes are taken to begin and end with white space (as in   *)
(* the output of soup.prettify()), so concatenating the overlap text and   *)
(* a text node never fuses two words; tags hold no white-space-only text.  *)
(***************************************************************************)
EXTENDS Integers, Sequences, FiniteSets, TLC

(* ------------------------------ bounds -------------------------------- *)
MaxElems == 3
MaxWords == 4
MaxDocWords == 5
MaxWeight == 2
MaxBudget == 3
MaxPages == 2
MaxLinks == 3
MaxKeys == 3
MaxCalls == 4
CacheMaxSize == 2
MaxChars == 3
MaxBackups == 2
MaxSeconds == 5
MaxBackupCalls == 3
MaxRetries == 3
MaxInputs == 4
MaxBatchSize == 2
MaxPageIds == 4
MaxFetches == 2
MaxBatch == 2
ChildrenBatchSize == 2
MaxDocuments == 2
MaxPieces == 1
MaxFinalizes == 2
MaxWorkers == 2
MaxLookups == 2

(* --------------------------- words and nodes --------------------------- *)
Word(i, c, e) == [id |-> i, w |-> c, end |-> e, ph |-> FALSE]

TextNode(ws) == [kind |-> "text", name |-> "", href |-> 0, words |-> ws, kids |-> <<>>]

Tag(nm, ks) == [kind |-> "tag", name |-> nm, href |-> 0, words |-> <<>>, kids |-> ks]

Anchor(h, ks) == [kind |-> "tag", name |-> "a", href |-> h, words |-> <<>>, kids |-> ks]

HeaderNames == {"h1", "h2", "h3", "h4", "h5", "h6"}

RECURSIVE Flatten(_)
Flatten(ss) == IF ss = <<>> THEN <<>> ELSE Head(ss) \o Flatten(Tail(ss))

RECURSIVE SumSeq(_)
SumSeq(s) == IF s = <<>> THEN 0 ELSE Head(s) + SumSeq(Tail(s))

Min(a, b) == IF a <= b THEN a ELSE b
Max(a, b) == IF a >= b THEN a ELSE b

LastWords(ws, n) == SubSeq(ws, Len(ws) - Min(Len(ws), n) + 1, Len(ws))

(* ------------------------------ tokenizer ------------------------------ *)
\* TokenCounter.count_tokens: the external tokenizer on a plain text
Tokenizer(ws) == SumSeq([k \in 1..Len(ws) |-> IF ws[k].ph THEN ws[k].w + 1 ELSE ws[k].w])

(* ------------------------------ HtmlCleaner ---------------------------- *)
\* soup.get_text(separator=' ', strip=True) and white-space collapse: the words in order
RECURSIVE GetText(_)
GetText(html) ==
    IF html = <<>> THEN <<>>
    ELSE LET n == Head(html)
         IN (IF n.kind = "text" THEN n.words ELSE GetText(n.kids)) \o GetText(Tail(html))

\* the words of the text <[text]/> that stands for a link
Placeholder(ws) == [k \in 1..Len(ws) |-> [ws[k] EXCEPT !.ph = TRUE, !.end = FALSE]]

\* HtmlCleaner._process_html_links: every <a> with visible text becomes the text <[text]/>
RECURSIVE ReplaceLinks(_)
ReplaceLinks(html) ==
    IF html = <<>> THEN <<>>
    ELSE LET n == Head(html)
             r == IF n.kind = "text" THEN <<n>>
                  ELSE IF n.name = "a"
                       THEN (IF GetText(n.kids) = <<>> THEN <<>>
                             ELSE <<TextNode(Placeholder(GetText(n.kids)))>>)
                       ELSE <<[n EXCEPT !.kids = ReplaceLinks(n.kids)]>>
         IN r \o ReplaceLinks(Tail(html))

\* the link table of _process_html_links: visible text (its first word) -> href
RECURSIVE LinkTable(_)
LinkTable(html) ==
    IF html = <<>> THEN {}
    ELSE LET n == Head(html)
             r == IF n.kind = "text" THEN {}
                  ELSE IF n.name = "a"
                       THEN (IF GetText(n.kids) = <<>> THEN {}
                             ELSE {<<GetText(n.kids)[1].id, n.href>>})
                       ELSE LinkTable(n.kids)
         IN r \cup LinkTable(Tail(html))

\* HtmlCleaner.process_links
ProcessLinks(html) == [page_content |-> ReplaceLinks(html), metadata |-> LinkTable(html)]

\* HtmlCleaner.clean_html with keep_tags = None: plain text
CleanHtml(html) == GetText(html)

\* DocumentChunker.count_tokens
CountTokens(html) == Tokenizer(CleanHtml(ProcessLinks(html).page_content))


(* --------------------------- DocumentChunker --------------------------- *)
\* the chunker's instance state: self.chunks, self.current_chunk["page_content"],
\* self.last_chunk_content (None is the empty text), and the exception in flight ("" = none)
ChunkerInit == [chunks |-> <<>>, cur |-> <<>>, last |-> <<>>, exc |-> ""]

Chunk(content, links) == [page_content |-> content, metadata |-> links]

\* a variant of the clamp that has no upper limit
ClampOverlapNoCeiling(arg) == Max(0, arg)

\* DocumentChunker.__init__ line 254: min(max(0.0, overlap), 0.5), in percent
ClampOverlap(arg) == Min(Max(0, arg), 50)

\* int(self.chunk_token_limit * self.overlap), the overlap given in percent
OverlapSize(L, ov) == (L * ov) \div 100

\* DocumentChunker._is_header
IsHeader(el) == el.kind = "tag" /\ el.name \in HeaderNames

\* a variant that appends the current chunk without testing that it holds anything
FinalizeChunkUnguarded(st, L, ov) ==
    LET processed == ProcessLinks(st.cur)
        content == CleanHtml(processed.page_content)
    IN [st EXCEPT !.chunks = Append(st.chunks, Chunk(content, processed.metadata)),
                  !.last = content,
                  !.cur = <<>>]

\* DocumentChunker._finalize_chunk
FinalizeChunk(st, L, ov) ==
    LET processed == ProcessLinks(st.cur)
        content == CleanHtml(processed.page_content)
        emit == st.cur # <<>> /\ content # <<>>
        chunks1 == IF emit THEN Append(st.chunks, Chunk(content, processed.metadata))
                   ELSE st.chunks
        last1 == IF emit THEN content ELSE st.last
        overlap_words == LastWords(last1, OverlapSize(L, ov))
        seeded == /\ ov > 0
                  /\ last1 # <<>>
                  /\ OverlapSize(L, ov) > 0
                  /\ Tokenizer(overlap_words) <= L
    IN [st EXCEPT !.chunks = chunks1,
                  !.last = last1,
                  !.cur = IF seeded THEN <<TextNode(overlap_words)>> ELSE <<>>]

\* re.split(r'(?<=[.!?])\s+', text): the sentences, a trailing empty one included
RECURSIVE Sentences(_, _)
Sentences(ws, acc) ==
    IF ws = <<>> THEN <<acc>>
    ELSE IF Head(ws).end THEN <<Append(acc, Head(ws))>> \o Sentences(Tail(ws), <<>>)
    ELSE Sentences(Tail(ws), Append(acc, Head(ws)))

\* the sentence loop of _split_text_node (lines 437-450)
RECURSIVE PackSentences(_, _, _, _)
PackSentences(sents, current, chunks, L) ==
    IF sents = <<>> THEN (IF current # <<>> THEN Append(chunks, current) ELSE chunks)
    ELSE LET sentence == Head(sents)
             test_chunk == current \o sentence
         IN IF sentence = <<>> THEN PackSentences(Tail(sents), current, chunks, L)
            ELSE IF Tokenizer(test_chunk) <= L
                 THEN PackSentences(Tail(sents), test_chunk, chunks, L)
                 ELSE PackSentences(Tail(sents), sentence,
                                    IF current # <<>> THEN Append(chunks, current) ELSE chunks, L)

\* int(self.chunk_token_limit / max(1, count / len(words)))
WindowSize(L, count, nwords) == IF count <= nwords THEN L ELSE (L * nwords) \div count

\* the window loop of _split_text_node (lines 463-481): a window over the limit reaches
\* self._cached_count_tokens, which DocumentChunker does not define
RECURSIVE WordWindows(_, _, _, _)
WordWindows(words, window_size, chunks, L) ==
    IF words = <<>> THEN [parts |-> chunks, exc |-> ""]
    ELSE LET word_group == SubSeq(words, 1, Min(Len(words), window_size))
             rest == SubSeq(words, Len(word_group) + 1, Len(words))
         IN IF Tokenizer(word_group) <= L
            THEN WordWindows(rest, window_size, Append(chunks, <<TextNode(word_group)>>), L)
            ELSE [parts |-> chunks, exc |-> "AttributeError"]

AsTextParts(texts) == [k \in 1..Len(texts) |-> <<TextNode(texts[k])>>]

\* DocumentChunker._split_text_node
SplitTextNode(ws, L) ==
    LET sentences == Sentences(ws, <<>>)
        packed == PackSentences(sentences, <<>>, <<>>, L)
        window_size == WindowSize(L, Tokenizer(ws), Len(ws))
    IN IF Len(sentences) > 1 /\ packed # <<>>
       THEN [parts |-> AsTextParts(packed), exc |-> ""]
       ELSE IF ws = <<>> THEN [parts |-> <<>>, exc |-> "ZeroDivisionError"]
       ELSE IF window_size = 0 THEN [parts |-> <<>>, exc |-> "ValueError"]
       ELSE WordWindows(ws, window_size, <<>>, L)

RECURSIVE SplitElement(_, _)
RECURSIVE SplitChildren(_, _, _, _)

\* the child loop of _split_tag (lines 499-515); current_group is not reset after an
\* oversized child has been split
SplitChildren(children, current_group, parts, L) ==
    IF children = <<>>
    THEN [parts |-> IF current_group # <<>> THEN Append(parts, current_group) ELSE parts,
          exc |-> ""]
    ELSE LET child == Head(children)
             test_group == Append(current_group, child)
             parts1 == IF current_group # <<>> THEN Append(parts, current_group) ELSE parts
         IN IF CountTokens(test_group) <= L
            THEN SplitChildren(Tail(children), test_group, parts, L)
            ELSE IF CountTokens(<<child>>) > L
                 THEN LET sub == SplitElement(child, L)
                      IN IF sub.exc # "" THEN [parts |-> parts1, exc |-> sub.exc]
                         ELSE SplitChildren(Tail(children), current_group,
                                            parts1 \o sub.parts, L)
                 ELSE SplitChildren(Tail(children), <<child>>, parts1, L)

\* DocumentChunker._split_tag: every part is wrapped in a copy of the tag
SplitTag(tag, L) ==
    LET r == SplitChildren(tag.kids, <<>>, <<>>, L)
    IN [parts |-> [k \in 1..Len(r.parts) |-> <<[tag EXCEPT !.kids = r.parts[k]]>>],
        exc |-> r.exc]

\* DocumentChunker._split_element
SplitElement(element, L) ==
    IF CountTokens(<<element>>) <= L THEN [parts |-> <<<<element>>>>, exc |-> ""]
    ELSE IF element.kind = "text" THEN SplitTextNode(element.words, L)
    ELSE SplitTag(element, L)

\* the part loop of _split_and_add_content (lines 394-397)
RECURSIVE AddParts(_, _, _, _)
AddParts(st, parts, L, ov) ==
    IF parts = <<>> THEN st
    ELSE LET part == Head(parts)
             st1 == IF CountTokens(st.cur \o part) > L THEN FinalizeChunk(st, L, ov) ELSE st
         IN AddParts([st1 EXCEPT !.cur = st1.cur \o part], Tail(parts), L, ov)

\* DocumentChunker._split_and_add_content: only Tag children of the parsed content are split
RECURSIVE SplitAndAddContent(_, _, _, _)
SplitAndAddContent(st, content, L, ov) ==
    IF content = <<>> THEN st
    ELSE LET element == Head(content)
         IN IF element.kind # "tag" THEN SplitAndAddContent(st, Tail(content), L, ov)
            ELSE LET sp == SplitElement(element, L)
                 IN IF sp.exc # "" THEN [st EXCEPT !.exc = sp.exc]
                    ELSE SplitAndAddContent(AddParts(st, sp.parts, L, ov), Tail(content), L, ov)

\* a variant that starts a new segment for every element
ProcessRegularElementFlushing(st, element, L, ov) ==
    IF CountTokens(<<element>>) > L THEN SplitAndAddContent(st, <<element>>, L, ov)
    ELSE [st EXCEPT !.chunks = FinalizeChunk(st, L, ov).chunks,
                    !.last = FinalizeChunk(st, L, ov).last,
                    !.cur = FinalizeChunk(st, L, ov).cur \o <<element>>]

\* DocumentChunker._process_regular_element
ProcessRegularElement(st, element, L, ov) ==
    LET element_html == <<element>>
    IN IF CountTokens(st.cur \o element_html) <= L
       THEN [st EXCEPT !.cur = st.cur \o element_html]
       ELSE IF CountTokens(element_html) > L
            THEN SplitAndAddContent(st, element_html, L, ov)
            ELSE LET st1 == FinalizeChunk(st, L, ov)
                 IN [st1 EXCEPT !.cur = st1.cur \o element_html]

\* DocumentChunker._process_header_with_content
ProcessHeaderWithContent(st, header, content, L, ov) ==
    LET combined_html == <<header, content>>
        st1 == FinalizeChunk(st, L, ov)
    IN IF CountTokens(st.cur \o combined_html) <= L
       THEN [st EXCEPT !.cur = st.cur \o combined_html]
       ELSE IF CountTokens(st1.cur \o combined_html) <= L
            THEN [st1 EXCEPT !.cur = st1.cur \o combined_html]
            ELSE SplitAndAddContent(st1, combined_html, L, ov)


\* the sentences of a stripped text: no split after its last word
StripSentences(ws) ==
    IF ws = <<>> THEN <<>>
    ELSE Sentences([k \in 1..Len(ws) |->
                       IF k = Len(ws) THEN [ws[k] EXCEPT !.end = FALSE] ELSE ws[k]], <<>>)

AsChunks(texts) == [k \in 1..Len(texts) |-> Chunk(texts[k], {})]

\* the while loop of _get_sliding_window_chunks (lines 578-580)
RECURSIVE ShrinkWindow(_, _)
ShrinkWindow(window_words, L) ==
    IF Tokenizer(window_words) > L /\ Len(window_words) > 1
    THEN ShrinkWindow(SubSeq(window_words, 1, Len(window_words) - 1), L)
    ELSE window_words

\* the for loop of _get_sliding_window_chunks (lines 574-588), i counted from 0
RECURSIVE SlideWindows(_, _, _, _, _, _)
SlideWindows(words, i, window_size, step_size, result_chunks, L) ==
    IF i >= Len(words) THEN result_chunks
    ELSE LET window_words == SubSeq(words, i + 1, Min(Len(words), i + window_size))
             window_text == ShrinkWindow(window_words, L)
         IN SlideWindows(words, i + step_size, window_size, step_size,
                         IF window_text # <<>>
                         THEN Append(result_chunks, Chunk(window_text, {}))
                         ELSE result_chunks, L)

\* DocumentChunker._get_sliding_window_chunks
GetSlidingWindowChunks(text, L, ov) ==
    IF text = <<>> \/ Tokenizer(text) <= L THEN <<Chunk(text, {})>>
    ELSE LET w0 == WindowSize(L, Tokenizer(text), Len(text))
             window_size == IF w0 <= 0 THEN 1 ELSE w0
             s0 == (window_size * (100 - ov)) \div 100
             step_size == IF s0 < 1 THEN 1 ELSE s0
         IN SlideWindows(text, 0, window_size, step_size, <<>>, L)

\* DocumentChunker._fallback_chunking; the cleaned text holds no blank line, so it is one
\* paragraph
FallbackChunking(html, L, ov) ==
    LET text == CleanHtml(ProcessLinks(html).page_content)
    IN IF ov > 0 THEN GetSlidingWindowChunks(text, L, ov)
       ELSE IF text = <<>> THEN <<>>
       ELSE IF Tokenizer(text) <= L THEN <<Chunk(text, {})>>
       ELSE AsChunks(PackSentences(StripSentences(text), <<>>, <<>>, L))

\* the pairing test of _process_elements (lines 320-323)
PairsWithNext(elements, i) ==
    /\ IsHeader(elements[i])
    /\ i + 1 <= Len(elements)
    /\ ~IsHeader(elements[i + 1])

\* DocumentChunker._process_elements, from element i on
RECURSIVE ProcessElements(_, _, _, _, _)
ProcessElements(st, elements, i, L, ov) ==
    IF i > Len(elements) \/ st.exc # "" THEN st
    ELSE IF PairsWithNext(elements, i)
         THEN ProcessElements(
                  ProcessHeaderWithContent(st, elements[i], elements[i + 1], L, ov),
                  elements, i + 2, L, ov)
         ELSE ProcessElements(ProcessRegularElement(st, elements[i], L, ov),
                              elements, i + 1, L, ov)

\* chunk_document lines 294-296: the children of the root, white-space text left out
Elements(root) == SelectSeq(root, LAMBDA el : ~(el.kind = "text" /\ el.words = <<>>))

\* a variant that keeps last_chunk_content from the call before
ResetChunkerKeepingLast(st) == [ChunkerInit EXCEPT !.last = st.last]

\* chunk_document lines 286-288: the fields of the chunker st at the start of a call
ResetChunker(st) == ChunkerInit

\* chunk_document lines 299-304, the tree walk having ended in st
ReturnChunks(html, st, L, ov) ==
    IF st.exc # "" THEN [result |-> FallbackChunking(html, L, ov), exc |-> "", st |-> st]
    ELSE [result |-> FinalizeChunk(st, L, ov).chunks, exc |-> "",
          st |-> FinalizeChunk(st, L, ov)]

\* DocumentChunker.chunk_document with a working tokenizer: the list returned and the
\* fields the call leaves behind
ChunkDocument(st, html, L, ov) ==
    ReturnChunks(html, ProcessElements(ResetChunker(st), Elements(html), 1, L, ov), L, ov)

\* DocumentChunker.chunk_document when the tokenizer raises on every call: the first
\* count_tokens of the walk raises, and so does the first one of the fallback, which
\* lets the exception out of chunk_document
ChunkDocumentTokenizerDown(st0, html, ov) ==
    LET text == CleanHtml(ProcessLinks(html).page_content)
        st == [ResetChunker(st0) EXCEPT !.exc = "TokenizerError"]
    IN IF Elements(html) = <<>> THEN [result |-> <<>>, exc |-> "", st |-> ResetChunker(st0)]
       ELSE IF text # <<>> THEN [result |-> <<>>, exc |-> "TokenizerError", st |-> st]
       ELSE IF ov > 0 THEN [result |-> <<Chunk(text, {})>>, exc |-> "", st |-> st]
       ELSE [result |-> <<>>, exc |-> "", st |-> st]

(* ------------------------- the input documents ------------------------- *)
\* a text of n words: the first hp cost MaxWeight tokens, word s ends a sentence
MkText(n, hp, s) == [k \in 1..n |-> Word(0, IF k <= hp THEN MaxWeight ELSE 1, k = s)]

Light(n) == MkText(n, 0, 0)

Texts == {MkText(n, hp, s) : n \in 1..MaxWords, hp \in {0, 2}, s \in {0, 1}}
          \ {MkText(n, 2, 1) : n \in 1..MaxWords}

Paragraph(text) == Tag("p", <<TextNode(text)>>)

ElementPool ==
    {Tag("h2", <<TextNode(Light(1))>>)}
    \cup {Paragraph(t) : t \in Texts}
    \cup {TextNode(Light(n)) : n \in 1..MaxWords}
    \cup {Tag("div", <<Paragraph(Light(1)), Paragraph(Light(2)), Paragraph(Light(1))>>),
          Tag("p", <<>>),
          Tag("p", <<TextNode(Light(1)), Anchor(1, <<TextNode(Light(1))>>)>>),
          Tag("p", <<Anchor(1, <<TextNode(MkText(1, 1, 0))>>)>>),
          TextNode(<<>>)}

\* the parser never yields two adjacent text nodes
WellFormed(d) ==
    /\ Len(GetText(d)) <= MaxDocWords
    /\ \A k \in 1..(Len(d) - 1) : ~(d[k].kind = "text" /\ d[k + 1].kind = "text")

\* word identities: the position of the word in the document
RECURSIVE NumberNodes(_, _)
NumberNodes(html, n) ==
    IF html = <<>> THEN <<>>
    ELSE LET h == Head(html)
             hn == IF h.kind = "text"
                   THEN [h EXCEPT !.words = [k \in 1..Len(h.words) |->
                                                [h.words[k] EXCEPT !.id = n + k]]]
                   ELSE [h EXCEPT !.kids = NumberNodes(h.kids, n)]
         IN <<hn>> \o NumberNodes(Tail(html), n + Len(GetText(<<h>>)))

Documents ==
    {NumberNodes(d, 0) : d \in {x \in UNION {[1..n -> ElementPool] : n \in 0..MaxElems} :
                                    WellFormed(x)}}

Budgets == 1..MaxBudget

\* overlap in percent, after the clamp of DocumentChunker.__init__
Overlaps == {0, 50}

(* ------------------------- the input pages ----------------------------- *)
\* a page object of the Confluence API: the fields process_pages reads, each possibly
\* missing, and whether the tokenizer answers for the text of this page
Page(doc, missing) ==
    [is_mapping |-> "mapping" \notin missing,
     has_id |-> {"id", "mapping"} \cap missing = {}, id |-> 0,
     has_title |-> {"title", "mapping"} \cap missing = {}, title |-> 0,
     has_body |-> {"body", "mapping"} \cap missing = {}, body |-> doc,
     has_links |-> {"_links", "mapping"} \cap missing = {}, url |-> 0,
     tokenizer_ok |-> "tokenizer" \notin missing]

LinkParagraph == Tag("p", <<TextNode(Light(1)), Anchor(1, <<TextNode(Light(1))>>)>>)

EmptyDoc == <<>>

TwoWordDoc == NumberNodes(<<Paragraph(Light(2))>>, 0)

PageDocs ==
    {EmptyDoc, TwoWordDoc,
     NumberNodes(<<Tag("h2", <<TextNode(Light(1))>>), LinkParagraph>>, 0)}

PagePool ==
    {Page(d, {}) : d \in PageDocs}
    \cup {Page(d, {m}) : d \in {EmptyDoc, TwoWordDoc}, m \in {"title", "tokenizer"}}
    \cup {Page(TwoWordDoc, m) : m \in {{"id"}, {"_links"}, {"body"}, {"id", "body"}}}
    \cup {Page(<<Tag("p", <<>>)>>, {"tokenizer"})}
    \cup {Page(EmptyDoc, {"mapping"})}

\* the k-th page of a batch: its id, title and url are those of page k
Batch(templates) ==
    [k \in 1..Len(templates) |-> [templates[k] EXCEPT !.id = k, !.title = k, !.url = k]]

Batches == {Batch(t) : t \in UNION {[1..n -> PagePool] : n \in 0..MaxPages}}

\* keep_tags: None (the empty set), config.KEEP_TAGS (no "p", no "div"), every tag
KeepTagsChoices == {{}, {"h2", "a"}, {"h2", "a", "p", "div"}}

PageBudgets == {1, 2}

(* ------------------------------- state --------------------------------- *)
VARIABLES
    html,                \* the argument of chunk_document
    chunk_token_limit,   \* DocumentChunker.chunk_token_limit
    overlap,             \* DocumentChunker.overlap, in percent
    i,                   \* the index of _process_elements (from 1)
    chunks,              \* DocumentChunker.chunks
    current_chunk,       \* DocumentChunker.current_chunk["page_content"]
    last_chunk_content,  \* DocumentChunker.last_chunk_content
    raised,              \* the exception that left the tree walk ("" = none)
    pc,                  \* where chunk_document stands: "walk", "except", "done", "raised"
    result,              \* the list chunk_document returned
    pages,               \* the argument of process_pages
    keep_tags,           \* the argument keep_tags of process_pages
    idx,                 \* the index of the loop of process_pages (from 1)
    documents,           \* process_pages: documents
    metadatas,           \* process_pages: metadatas
    empty_pages,         \* process_pages: empty_pages
    ppc,                 \* where process_pages stands: "idle", "loop", "returned", "raised"
    overlap_arg,         \* the argument overlap of DocumentChunker.__init__, in percent
    fragment,            \* the argument of process_links
    soup,                \* process_links: the parsed fragment, rewritten in place
    site,                \* what the resolver answers for a page title: a url or None
    link_metadata,       \* process_links: metadata_confluence, then the merged table
    lpc,                 \* where process_links stands: "idle", "confluence", "html", "done"
    page_cache,          \* the lru_cache of resolve_page_link, least recently used first
    user_cache,          \* the lru_cache of resolve_user_link, least recently used first
    client_calls,        \* how many times the Confluence client has been invoked
    returned,            \* the last call of the resolver and what it returned
    first_returned,      \* for every key, what the resolver returned for it first
    raw,                 \* the argument of clean_html
    cleaned,             \* what clean_html returned of raw, and of that in turn
    source,              \* the blobs of the source bucket
    destination,         \* the blobs of the backup bucket
    clock,               \* the time of the storage service
    backups_number,      \* the argument of BackupClient.backup
    last_backup,         \* the last call of backup: the folder written, the folder deleted
    remote,              \* the pages of the Confluence space: parent and status of each
    children_cache,      \* the lru_cache of get_page_children, least recently used first
    fetched,             \* the last call of get_all_space_pages and what it returned
    lookups,             \* the direct calls of get_page_children and get_page_tree
    embedder,            \* VertexAIChromaEmbedder: batch_size, retry_attempts
    input,               \* the argument of VertexAIChromaEmbedder.__call__
    ecall,               \* where __call__ and _get_embeddings_with_retry stand
    heap,                \* the list and dict objects the chunker has created
    self_ref,            \* which objects self.chunks and self.current_chunk refer to
    handed,              \* the lists chunk_document has returned, as they were then
    hpc,                 \* where chunk_document stands in terms of objects
    store,               \* the collections of the ChromaDB server
    update_call,         \* the last call of ChromaClient.update and what it returned
    chat_log,            \* the events chat_app has handled and what it did for each
    drawn,               \* how many identifiers uuid.uuid4 has handed out
    runs                 \* what the calls of chunk_document on one document returned

chunkerVars == <<html, i, chunks, current_chunk, last_chunk_content, raised, pc, result>>

pageVars == <<pages, keep_tags, idx, documents, metadatas, empty_pages, ppc>>

linkVars == <<fragment, soup, site, link_metadata, lpc>>

resolverVars == <<page_cache, user_cache, client_calls, returned, first_returned>>

cleanVars == <<raw, cleaned>>

backupVars == <<source, destination, clock, backups_number, last_backup>>

fetchVars == <<remote, children_cache, fetched, lookups>>

embedVars == <<embedder, input, ecall>>

heapVars == <<heap, self_ref, handed, hpc>>

lateVars == <<store, update_call, chat_log, drawn, runs>>

moreVars == <<fetchVars, embedVars, heapVars, lateVars>>

auxVars == <<overlap_arg, linkVars, resolverVars, cleanVars, backupVars, moreVars>>

vars == <<chunk_token_limit, overlap, chunkerVars, pageVars, auxVars>>

\* the chunker's fields as one record
Self == [chunks |-> chunks, cur |-> current_chunk, last |-> last_chunk_content,
         exc |-> raised]

SetSelf(st) ==
    /\ chunks' = st.chunks
    /\ current_chunk' = st.cur
    /\ last_chunk_content' = st.last
    /\ raised' = st.exc
    /\ pc' = IF st.exc # "" THEN "except" ELSE "walk"

NoBatch ==
    /\ pages = <<>>
    /\ keep_tags = {}
    /\ idx = 1
    /\ documents = <<>>
    /\ metadatas = <<>>
    /\ empty_pages = <<>>
    /\ ppc = "idle"

NoLinks == fragment = <<>> /\ soup = <<>> /\ site = <<>> /\ link_metadata = <<>> /\ lpc = "idle"

NoResolver ==
    /\ page_cache = <<>>
    /\ user_cache = <<>>
    /\ client_calls = 0
    /\ returned = <<>>
    /\ first_returned = <<>>

NoClean == raw = <<>> /\ cleaned = <<>>

NoBackup ==
    /\ source = {}
    /\ destination = {}
    /\ clock = 0
    /\ backups_number = 0
    /\ last_backup = <<>>

NoFetch == remote = <<>> /\ children_cache = <<>> /\ fetched = <<>> /\ lookups = <<>>

NoEmbed == embedder = <<>> /\ input = <<>> /\ ecall = <<>>

NoHeap == heap = <<>> /\ self_ref = <<>> /\ handed = <<>> /\ hpc = "idle"

NoChroma == store = <<>> /\ update_call = <<>>

NoChat == chat_log = <<>>

NoRuns == drawn = 0 /\ runs = <<>>

NoLate == NoChroma /\ NoChat /\ NoRuns

NoMore == NoFetch /\ NoEmbed /\ NoHeap /\ NoLate

NoChunker ==
    /\ html = <<>>
    /\ i = 1
    /\ chunks = <<>>
    /\ current_chunk = <<>>
    /\ last_chunk_content = <<>>
    /\ raised = ""
    /\ pc = "done"
    /\ result = <<>>

\* chunk_document lines 286-296: fresh state, the document parsed
Init ==
    /\ html \in Documents
    /\ chunk_token_limit \in Budgets
    /\ overlap \in Overlaps
    /\ i = 1
    /\ chunks = <<>>
    /\ current_chunk = <<>>
    /\ last_chunk_content = <<>>
    /\ raised = ""
    /\ pc = "walk"
    /\ result = <<>>
    /\ NoBatch
    /\ overlap_arg = overlap
    /\ NoLinks /\ NoResolver /\ NoClean /\ NoBackup /\ NoMore

\* one turn of the loop of _process_elements on a header and the element after it
HeaderWithContent ==
    /\ pc = "walk"
    /\ i <= Len(Elements(html))
    /\ PairsWithNext(Elements(html), i)
    /\ SetSelf(ProcessHeaderWithContent(Self, Elements(html)[i], Elements(html)[i + 1],
                                        chunk_token_limit, overlap))
    /\ i' = i + 2
    /\ UNCHANGED <<html, chunk_token_limit, overlap, result, pageVars, auxVars>>

\* one turn of the loop of _process_elements on a single element
RegularElement ==
    /\ pc = "walk"
    /\ i <= Len(Elements(html))
    /\ ~PairsWithNext(Elements(html), i)
    /\ SetSelf(ProcessRegularElement(Self, Elements(html)[i], chunk_token_limit, overlap))
    /\ i' = i + 1
    /\ UNCHANGED <<html, chunk_token_limit, overlap, result, pageVars, auxVars>>

\* chunk_document lines 299-301: the last _finalize_chunk and the return
FinishWalk ==
    /\ pc = "walk"
    /\ i > Len(Elements(html))
    /\ LET st == FinalizeChunk(Self, chunk_token_limit, overlap)
       IN /\ chunks' = st.chunks
          /\ current_chunk' = st.cur
          /\ last_chunk_content' = st.last
          /\ result' = st.chunks
    /\ pc' = "done"
    /\ UNCHANGED <<html, chunk_token_limit, overlap, i, raised, pageVars, auxVars>>

\* chunk_document lines 302-304: the except branch
Fallback ==
    /\ pc = "except"
    /\ result' = FallbackChunking(html, chunk_token_limit, overlap)
    /\ pc' = "done"
    /\ UNCHANGED <<html, chunk_token_limit, overlap, i, chunks, current_chunk,
                   last_chunk_content, raised, pageVars, auxVars>>

Next == HeaderWithContent \/ RegularElement \/ FinishWalk \/ Fallback

Spec == Init /\ [][Next]_vars

(* ----------------------------- HtmlProcessor --------------------------- *)
\* tag.unwrap() for every tag whose name is not kept: its children take its place
RECURSIVE Unwrap(_, _)
Unwrap(forest, keep) ==
    IF forest = <<>> THEN <<>>
    ELSE LET n == Head(forest)
             r == IF n.kind = "text" THEN <<n>>
                  ELSE IF n.name \in keep THEN <<[n EXCEPT !.kids = Unwrap(n.kids, keep)]>>
                  ELSE Unwrap(n.kids, keep)
         IN r \o Unwrap(Tail(forest), keep)

\* serialising and parsing again makes one text node of adjacent text nodes
RECURSIVE MergeText(_)
MergeText(forest) ==
    IF forest = <<>> THEN <<>>
    ELSE LET n == Head(forest)
             rest == MergeText(Tail(forest))
         IN IF n.kind = "tag" THEN <<[n EXCEPT !.kids = MergeText(n.kids)]>> \o rest
            ELSE IF rest # <<>> /\ Head(rest).kind = "text"
                 THEN <<TextNode(n.words \o Head(rest).words)>> \o Tail(rest)
                 ELSE <<n>> \o rest

\* HtmlCleaner.clean_html with keep_tags given (lines 127-131), as chunk_document parses
\* its output; no keep_tags (lines 133-136) leaves the plain text
CleanHtmlKeep(forest, keep) ==
    IF keep # {} THEN MergeText(Unwrap(forest, keep))
    ELSE IF GetText(forest) = <<>> THEN <<>>
    ELSE <<TextNode(GetText(forest))>>

\* page.get('id', 'unknown'); 0 stands for 'unknown'
PageId(page) == IF page.has_id THEN page.id ELSE 0

\* a variant in which every record carries the link table of the first chunk
PageMetadataFirstLinks(page, cs) ==
    [k \in 1..Len(cs) |-> [title |-> page.title, page_id |-> PageId(page),
                           page_url |-> page.url, links |-> cs[1].metadata]]

\* the metadata records of process_pages lines 773-780
PageMetadata(page, cs) ==
    [k \in 1..Len(cs) |-> [title |-> page.title, page_id |-> PageId(page),
                           page_url |-> page.url, links |-> cs[k].metadata]]

\* nothing appended, html_text chunked by call
Nothing(html_text, call) ==
    [exc |-> "", documents |-> <<>>, metadatas |-> <<>>, empty |-> <<>>,
     html |-> html_text, call |-> call]

\* process_pages lines 768-784: the chunks returned, or the exception raised, by
\* chunk_document
AfterChunking(page, html_text, call) ==
    IF call.exc # "" THEN [Nothing(html_text, call) EXCEPT !.exc = call.exc]
    ELSE IF call.result = <<>> THEN [Nothing(html_text, call) EXCEPT !.empty = <<PageId(page)>>]
    ELSE IF ~page.has_links \/ ~page.has_title
         THEN [Nothing(html_text, call) EXCEPT !.exc = "KeyError"]
    ELSE [Nothing(html_text, call) EXCEPT
             !.documents = [k \in 1..Len(call.result) |-> call.result[k].page_content],
             !.metadatas = PageMetadata(page, call.result)]

\* process_pages lines 765-766: clean_html, then chunk_document
ChunkPage(page, html_text, L, ov) ==
    AfterChunking(page, html_text,
                  IF page.tokenizer_ok THEN ChunkDocument(Self, html_text, L, ov)
                  ELSE ChunkDocumentTokenizerDown(Self, html_text, ov))

\* the try block of process_pages (lines 754-784) for one page: the exception it ends
\* with ("" = none), what it appends to the three lists, the chunker it leaves behind
TryPage(page, keep, L, ov) ==
    IF ~page.has_body
    THEN [Nothing(<<>>, [result |-> <<>>, exc |-> "", st |-> ChunkerInit])
             EXCEPT !.exc = IF page.is_mapping THEN "KeyError" ELSE "AttributeError"]
    ELSE ChunkPage(page, CleanHtmlKeep(page.body, keep), L, ov)

\* the except block of process_pages (lines 786-791): what it appends to empty_pages,
\* and the exception it raises itself ("" = none)
ExceptPage(page) ==
    [empty |-> <<PageId(page)>>, exc |-> IF page.is_mapping THEN "" ELSE "AttributeError"]

\* the try block having ended in try, the except block in handler
Caught(try, handler) ==
    IF try.exc = "" THEN try
    ELSE [try EXCEPT !.exc = handler.exc,
                     !.empty = IF handler.exc = "" THEN handler.empty ELSE <<>>]

\* one turn of the loop of process_pages
PageTurn(page, keep, L, ov) == Caught(TryPage(page, keep, L, ov), ExceptPage(page))

\* process_pages lines 746-751
InitPages ==
    /\ pages \in Batches
    /\ keep_tags \in KeepTagsChoices
    /\ chunk_token_limit \in PageBudgets
    /\ overlap \in Overlaps
    /\ idx = 1
    /\ documents = <<>>
    /\ metadatas = <<>>
    /\ empty_pages = <<>>
    /\ ppc = "loop"
    /\ NoChunker
    /\ overlap_arg = overlap
    /\ NoLinks /\ NoResolver /\ NoClean /\ NoBackup /\ NoMore

\* the effect of one turn on the lists and on the chunker
ApplyTurn(page, turn) ==
    /\ documents' = documents \o turn.documents
    /\ metadatas' = metadatas \o turn.metadatas
    /\ empty_pages' = empty_pages \o turn.empty
    /\ ppc' = IF turn.exc # "" THEN "raised" ELSE "loop"
    /\ html' = IF page.has_body THEN turn.html ELSE html
    /\ chunks' = IF page.has_body THEN turn.call.st.chunks ELSE chunks
    /\ current_chunk' = IF page.has_body THEN turn.call.st.cur ELSE current_chunk
    /\ last_chunk_content' = IF page.has_body THEN turn.call.st.last ELSE last_chunk_content
    /\ raised' = IF page.has_body THEN turn.call.st.exc ELSE raised
    /\ result' = IF page.has_body THEN turn.call.result ELSE result
    /\ pc' = IF ~page.has_body THEN pc
             ELSE IF turn.call.exc # "" THEN "raised" ELSE "done"

\* process_pages lines 753-791: one page
ProcessPage ==
    /\ ppc = "loop"
    /\ idx <= Len(pages)
    /\ ApplyTurn(pages[idx], PageTurn(pages[idx], keep_tags, chunk_token_limit, overlap))
    /\ idx' = IF ppc' = "raised" THEN idx ELSE idx + 1
    /\ UNCHANGED <<pages, keep_tags, chunk_token_limit, overlap, i, auxVars>>

\* process_pages line 793
ReturnPages ==
    /\ ppc = "loop"
    /\ idx > Len(pages)
    /\ ppc' = "returned"
    /\ UNCHANGED <<pages, keep_tags, idx, documents, metadatas, empty_pages,
                   chunk_token_limit, overlap, chunkerVars, auxVars>>

NextPages == ProcessPage \/ ReturnPages

SpecPages == InitPages /\ [][NextPages]_vars

(* ------------------------------ properties ----------------------------- *)
Ids(ws) == {ws[k].id : k \in 1..Len(ws)}

Done == pc = "done"

SegmentText(k) == result[k].page_content

\* the cleaned text of the whole document
DocumentText == CleanHtml(ProcessLinks(html).page_content)

\* C1: every segment chunk_document returns costs at most the budget, unless its whole
\* text is a single word
C1_SegmentsWithinBudget ==
    Done => \A k \in 1..Len(result) :
                \/ Tokenizer(SegmentText(k)) <= chunk_token_limit
                \/ Len(SegmentText(k)) = 1

\* C2: every word of a top-level element that alone exceeds the budget appears in some
\* returned segment, be the element a tag or a bare text node
C2_OversizedUnitCovered ==
    Done => \A e \in 1..Len(html) :
                CountTokens(<<html[e]>>) > chunk_token_limit
                    => \A w \in Ids(GetText(<<html[e]>>)) :
                           \E k \in 1..Len(result) : w \in Ids(SegmentText(k))

\* C3 as stated: a document whose cleaned text costs at most the budget yields exactly
\* one segment, equal to that text
C3_UnderBudgetOneSegment ==
    (Done /\ Tokenizer(DocumentText) <= chunk_token_limit)
        => (Len(result) = 1 /\ SegmentText(1) = DocumentText)

\* C3 amended: a document whose cleaned text is not empty and costs at most the budget
\* yields exactly one segment, equal to that text
C3_NonEmptyUnderBudgetOneSegment ==
    (Done /\ DocumentText # <<>> /\ Tokenizer(DocumentText) <= chunk_token_limit)
        => (Len(result) = 1 /\ SegmentText(1) = DocumentText)

C3_Witness ==
    /\ Done
    /\ Len(html) >= 2
    /\ \A e \in 1..Len(html) : GetText(<<html[e]>>) # <<>>
    /\ Tokenizer(DocumentText) <= chunk_token_limit
    /\ Len(result) = 1

\* the pairs <<A, B>> of sibling elements, A before B, at every level of the tree
RECURSIVE SiblingPairs(_)
SiblingPairs(forest) ==
    LET here == {ab \in (1..Len(forest)) \X (1..Len(forest)) : ab[1] < ab[2]}
    IN {<<forest[ab[1]], forest[ab[2]]>> : ab \in here}
           \cup UNION {SiblingPairs(forest[a].kids) : a \in 1..Len(forest)}

\* the segment's content comes only from the element
PurelyFrom(k, element) ==
    /\ SegmentText(k) # <<>>
    /\ Ids(SegmentText(k)) \subseteq Ids(GetText(<<element>>))

\* C4: for elements A before B, no segment purely from B precedes a segment purely from A
C4_DocumentOrder ==
    Done => \A ab \in SiblingPairs(html) :
                \A j \in 1..Len(result), k \in 1..Len(result) :
                    (PurelyFrom(j, ab[1]) /\ PurelyFrom(k, ab[2])) => j <= k

\* the document is one paragraph of plain words, no sentence boundary, each word within
\* the budget, the whole over it
SingleRunOnParagraph ==
    /\ Len(html) = 1
    /\ html[1].kind = "tag"
    /\ Len(html[1].kids) = 1
    /\ html[1].kids[1].kind = "text"
    /\ \A k \in 1..Len(DocumentText) :
           ~DocumentText[k].end /\ DocumentText[k].w <= chunk_token_limit
    /\ Tokenizer(DocumentText) > chunk_token_limit

IsRunOf(ws, text) ==
    \E a \in 1..Len(text) : a + Len(ws) - 1 <= Len(text) /\ ws = SubSeq(text, a, a + Len(ws) - 1)

\* C5: such a paragraph yields several segments, each within the budget, that cover its
\* words in order without a gap and, with overlap 0, without a repeat
C5_WordWindowsCoverParagraph ==
    (Done /\ SingleRunOnParagraph)
        => /\ Len(result) >= 2
           /\ \A k \in 1..Len(result) : Tokenizer(SegmentText(k)) <= chunk_token_limit
           /\ \A k \in 1..Len(result) : IsRunOf(SegmentText(k), DocumentText)
           /\ UNION {Ids(SegmentText(k)) : k \in 1..Len(result)} = Ids(DocumentText)
           /\ overlap = 0 => Flatten([k \in 1..Len(result) |-> SegmentText(k)]) = DocumentText

\* C6: with overlap > 0 every segment after the first starts with the last n words of the
\* segment before it, for some n from 1 to floor(budget * overlap)
C6_OverlapIsSuffixOfPrevious ==
    (Done /\ overlap > 0 /\ OverlapSize(chunk_token_limit, overlap) >= 1)
        => \A k \in 2..Len(result) :
               \E n \in 1..OverlapSize(chunk_token_limit, overlap) :
                   /\ n <= Len(SegmentText(k - 1))
                   /\ n <= Len(SegmentText(k))
                   /\ SubSeq(SegmentText(k), 1, n) = LastWords(SegmentText(k - 1), n)

\* C7: a header followed by a non-header sibling shares a segment with the first word of
\* that sibling whenever the pair alone is within the budget
C7_HeaderKeptWithContent ==
    Done => \A e \in 1..Len(Elements(html)) :
                (/\ PairsWithNext(Elements(html), e)
                 /\ GetText(<<Elements(html)[e + 1]>>) # <<>>
                 /\ CountTokens(<<Elements(html)[e], Elements(html)[e + 1]>>)
                        <= chunk_token_limit)
                    => \E k \in 1..Len(result) :
                           Ids(GetText(<<Elements(html)[e]>>))
                                   \cup {GetText(<<Elements(html)[e + 1]>>)[1].id}
                               \subseteq Ids(SegmentText(k))


(* ----------------------- properties of process_pages ------------------- *)
\* the chunks chunk_document returns for the body of page k of the batch
PageChunks(k) ==
    ChunkPage([pages[k] EXCEPT !.has_title = TRUE, !.has_links = TRUE],
              CleanHtmlKeep(pages[k].body, keep_tags), chunk_token_limit, overlap).call.result

\* the try block of page k ends with an exception
PageRaises(k) == TryPage(pages[k], keep_tags, chunk_token_limit, overlap).exc # ""

Range(f) == {f[k] : k \in 1..Len(f)}

\* C8: process_pages never lets an exception out; every page whose processing raised has
\* its id in the failed list, and every page of the batch has been processed at the return
C8_BatchNeverAborts ==
    /\ ppc # "raised"
    /\ \A k \in 1..(idx - 1) : PageRaises(k) => PageId(pages[k]) \in Range(empty_pages)
    /\ ppc = "returned" =>
           /\ idx = Len(pages) + 1
           /\ \A k \in 1..Len(pages) :
                  \/ PageId(pages[k]) \in Range(empty_pages)
                  \/ \E n \in 1..Len(metadatas) : metadatas[n].title = pages[k].title

\* where the records of page k start in the metadata list
FirstRecord(k) == CHOOSE n \in 1..Len(metadatas) :
                      /\ metadatas[n].title = k
                      /\ \A m \in 1..(n - 1) : metadatas[m].title # k

\* C9: the two lists are parallel: record n carries the title, id and url of the page
\* that produced segment n and the link table of that very segment, and the pages
\* contribute in the order of the batch
C9_ParallelLists ==
    /\ Len(documents) = Len(metadatas)
    /\ \A n \in 1..Len(metadatas) :
           LET k == metadatas[n].title
               j == n - FirstRecord(k) + 1
           IN /\ k \in 1..(idx - 1)
              /\ pages[k].has_body
              /\ metadatas[n].page_id = PageId(pages[k])
              /\ metadatas[n].page_url = pages[k].url
              /\ j <= Len(PageChunks(k))
              /\ documents[n] = PageChunks(k)[j].page_content
              /\ metadatas[n].links = PageChunks(k)[j].metadata
    /\ \A n \in 1..(Len(metadatas) - 1) : metadatas[n].title <= metadatas[n + 1].title
    /\ ppc = "returned" =>
           \A k \in 1..Len(pages) :
               Cardinality({n \in 1..Len(metadatas) : metadatas[n].title = k})
                   \in {0, Len(PageChunks(k))}

C9_Witness ==
    /\ ppc = "returned"
    /\ \E n \in 1..Len(metadatas), m \in 1..Len(metadatas) :
           /\ metadatas[n].title = metadatas[m].title
           /\ metadatas[n].links # {}
           /\ metadatas[m].links = {}
    /\ \E n \in 1..Len(metadatas), m \in 1..Len(metadatas) :
           metadatas[n].title # metadatas[m].title

\* C10: every turn of the loop either appends at least one segment, as many metadata
\* records, and no failed id, or appends the id of the page once to the failed list and
\* nothing else; a page without segments is recorded as failed; an empty batch returns
\* three empty lists
C10_PagesPartitioned ==
    /\ [][(ppc = "loop" /\ idx <= Len(pages)) =>
            \/ /\ Len(documents') > Len(documents)
               /\ Len(metadatas') - Len(metadatas) = Len(documents') - Len(documents)
               /\ empty_pages' = empty_pages
               /\ pages[idx].has_body /\ PageChunks(idx) # <<>>
            \/ /\ documents' = documents
               /\ metadatas' = metadatas
               /\ empty_pages' = Append(empty_pages, PageId(pages[idx]))]_vars
    /\ []((ppc = "returned" /\ pages = <<>>)
            => (documents = <<>> /\ metadatas = <<>> /\ empty_pages = <<>>))


(* --------------- properties of the fallback and of the reset ------------ *)
\* C15: chunk_document never raises; when the tree walk has raised, what it returns is
\* the result of _fallback_chunking on the whole fragment
C15_FallbackInsteadOfRaising ==
    /\ pc # "raised"
    /\ (pc = "done" /\ raised # "")
           => result = FallbackChunking(html, chunk_token_limit, overlap)

\* C16: a document without elements (nothing at all, or white-space text only) yields
\* no segment
C16_EmptyDocumentNoSegments == (Done /\ Elements(html) = <<>>) => result = <<>>

C16_Witness == Done /\ html # <<>> /\ Elements(html) = <<>> /\ result = <<>>

\* the words of a are, in order, the first words of b
StartsText(a, b) == Len(a) <= Len(b) /\ \A k \in 1..Len(a) : a[k].id = b[k].id

\* C17: the first segment of every call starts the text of its own document, so it holds
\* nothing carried from an earlier call on the same chunker; and as long as no segment
\* has been finalized in a call there is no last segment to carry from
C17_NoCarryAcrossDocuments ==
    /\ chunks = <<>> => last_chunk_content = <<>>
    /\ \A n \in 1..Len(metadatas) :
           n = FirstRecord(metadatas[n].title)
               => StartsText(documents[n],
                             GetText(CleanHtmlKeep(pages[metadatas[n].title].body, keep_tags)))

C17_Witness ==
    /\ ppc = "returned"
    /\ OverlapSize(chunk_token_limit, overlap) >= 1
    /\ \E n \in 1..Len(metadatas) :
           /\ metadatas[n].title = 2
           /\ metadatas[1].title = 1
           /\ last_chunk_content # <<>>


(* ------------------------ HtmlCleaner.process_links -------------------- *)
(* A fragment with links is the sequence of its nodes: plain text, <a>,    *)
(* <ac:link> holding <ri:page>, <ac:link> holding <ri:user>, <ac:link>     *)
(* holding neither.  Strings are strings; a dict is a function on its keys. *)
TextPiece(t) == [kind |-> "text", text |-> t, href |-> "", title |-> ""]

\* <a href=h>t</a>, t its visible text
Hyperlink(t, h) == [kind |-> "a", text |-> t, href |-> h, title |-> ""]

\* <ac:link><ri:page ri:content-title=title/></ac:link>
PageRef(title) == [kind |-> "ri:page", text |-> "", href |-> "", title |-> title]

\* <ac:link><ri:user ri:account-id=account/></ac:link>
UserRef(account) == [kind |-> "ri:user", text |-> "", href |-> "", title |-> account]

\* <ac:link>t</ac:link>
BareLink(t) == [kind |-> "ac:link", text |-> t, href |-> "", title |-> ""]

\* the string <[t]/> put in place of a link
PlaceholderPiece(t) == [kind |-> "placeholder", text |-> t, href |-> "", title |-> ""]

EmptyDict == [k \in {} |-> ""]

\* d[k] = v
Put(d, k, v) == [x \in DOMAIN d \cup {k} |-> IF x = k THEN v ELSE d[x]]

\* a | b
Merge(a, b) == [x \in DOMAIN a \cup DOMAIN b |-> IF x \in DOMAIN b THEN b[x] ELSE a[x]]

Titles == {"Home", "here"}

Accounts == {"acc"}

LinkTexts == {"", "here", "http://x"}

Hrefs == {"u1", "u2"}

\* a variant that returns the same string at every call
Uuid4Repeating(k) == "uuid-1"

\* str(uuid.uuid4()): a fresh string, one per node
Uuid4(k) == "uuid-" \o ToString(k)

\* text.startswith("http")
StartsWithHttp(t) == t = "http://x"

\* what ConfluenceResolver answers: for a title the url of the page or None, for an
\* account the public name or the fallback string
Sites ==
    [page : [Titles -> {"None", "url"}], user : [Accounts -> {"Ann", "User account_id: acc"}]]

\* HtmlCleaner._process_confluence_links, from node k on: the tree and the table
RECURSIVE ProcessConfluenceLinks(_, _, _, _)
ProcessConfluenceLinks(tree, answers, metadata, k) ==
    IF k > Len(tree) THEN [soup |-> tree, metadata |-> metadata]
    ELSE LET tag == tree[k]
         IN IF tag.kind = "ri:page"
            THEN ProcessConfluenceLinks(
                     [tree EXCEPT ![k] = PlaceholderPiece(tag.title)], answers,
                     Put(metadata, tag.title, answers.page[tag.title]), k + 1)
            ELSE IF tag.kind = "ri:user"
            THEN ProcessConfluenceLinks(
                     [tree EXCEPT ![k] = TextPiece(answers.user[tag.title])], answers,
                     metadata, k + 1)
            ELSE IF tag.kind = "ac:link"
            THEN ProcessConfluenceLinks([tree EXCEPT ![k] = TextPiece(tag.text)], answers,
                                        metadata, k + 1)
            ELSE ProcessConfluenceLinks(tree, answers, metadata, k + 1)

\* HtmlCleaner._process_html_links, from node k on: the tree and the table
RECURSIVE ProcessHtmlLinks(_, _, _)
ProcessHtmlLinks(tree, metadata, k) ==
    IF k > Len(tree) THEN [soup |-> tree, metadata |-> metadata]
    ELSE LET tag == tree[k]
             text == IF StartsWithHttp(tag.text) THEN Uuid4(k) ELSE tag.text
         IN IF tag.kind # "a" THEN ProcessHtmlLinks(tree, metadata, k + 1)
            ELSE IF tag.text = ""
            THEN ProcessHtmlLinks([tree EXCEPT ![k] = TextPiece("")], metadata, k + 1)
            ELSE ProcessHtmlLinks([tree EXCEPT ![k] = PlaceholderPiece(text)],
                                  Put(metadata, text, tag.href), k + 1)

LinkNodes ==
    {TextPiece("x"), BareLink("x")}
    \cup {Hyperlink(t, h) : t \in LinkTexts, h \in Hrefs}
    \cup {PageRef(t) : t \in Titles}
    \cup {UserRef(a) : a \in Accounts}

Fragments == UNION {[1..n -> LinkNodes] : n \in 0..MaxLinks}

\* process_links line 153
InitLinks ==
    /\ fragment \in Fragments
    /\ soup = fragment
    /\ site \in Sites
    /\ link_metadata = EmptyDict
    /\ lpc = "confluence"
    /\ chunk_token_limit = 1 /\ overlap = 0 /\ overlap_arg = 0
    /\ NoChunker /\ NoBatch /\ NoResolver /\ NoClean /\ NoBackup /\ NoMore

\* process_links line 155
ConfluenceLinks ==
    /\ lpc = "confluence"
    /\ soup' = ProcessConfluenceLinks(soup, site, EmptyDict, 1).soup
    /\ link_metadata' = ProcessConfluenceLinks(soup, site, EmptyDict, 1).metadata
    /\ lpc' = "html"
    /\ UNCHANGED <<fragment, site, chunk_token_limit, overlap, chunkerVars, pageVars,
                   overlap_arg, resolverVars, cleanVars, backupVars, moreVars>>

\* process_links lines 157-161
HtmlLinks ==
    /\ lpc = "html"
    /\ soup' = ProcessHtmlLinks(soup, EmptyDict, 1).soup
    /\ link_metadata' = Merge(link_metadata, ProcessHtmlLinks(soup, EmptyDict, 1).metadata)
    /\ lpc' = "done"
    /\ UNCHANGED <<fragment, site, chunk_token_limit, overlap, chunkerVars, pageVars,
                   overlap_arg, resolverVars, cleanVars, backupVars, moreVars>>

NextLinks == ConfluenceLinks \/ HtmlLinks

SpecLinks == InitLinks /\ [][NextLinks]_vars

\* C11: a page reference whose title resolves to no url is replaced by the plain title
\* and leaves no entry for the title in the link table; one whose title resolves to a
\* url is replaced by the placeholder and leaves the entry title -> url
C11_UnresolvedPageLinkIsPlainText ==
    lpc = "done" =>
        \A k \in 1..Len(fragment) :
            fragment[k].kind = "ri:page" =>
                IF site.page[fragment[k].title] = "None"
                THEN /\ soup[k] = TextPiece(fragment[k].title)
                     /\ \/ fragment[k].title \notin DOMAIN link_metadata
                        \/ link_metadata[fragment[k].title] # "None"
                ELSE /\ soup[k] = PlaceholderPiece(fragment[k].title)
                     /\ fragment[k].title \in DOMAIN link_metadata

\* C12: a hyperlink with visible text T, not a url, and href H is replaced by the
\* placeholder of T and the table maps T to H; a hyperlink without visible text is
\* removed and adds no entry
C12_HyperlinkBecomesPlaceholder ==
    lpc = "done" =>
        \A k \in 1..Len(fragment) :
            fragment[k].kind = "a" =>
                IF fragment[k].text = ""
                THEN soup[k] = TextPiece("") /\ "" \notin DOMAIN link_metadata
                ELSE ~StartsWithHttp(fragment[k].text)
                         => /\ soup[k] = PlaceholderPiece(fragment[k].text)
                            /\ fragment[k].text \in DOMAIN link_metadata
                            /\ link_metadata[fragment[k].text] = fragment[k].href


(* --------------------------- ConfluenceResolver ------------------------ *)
(* A title or an account id is a number.  The cache of lru_cache is the    *)
(* sequence of its entries, least recently used first; CacheMaxSize stands *)
(* for maxsize=1024.  What the Confluence client answers is chosen freely  *)
(* at every invocation.                                                    *)
ResolverKeys == 1..MaxKeys

\* get_page_by_title: raises, returns nothing, a page without "status", a page that is
\* not current, a current page
ByTitleAnswers == {"raises", "none", "no_status", "archived", "current"}

\* get_page_by_id: raises, a page without "_links", a page with them
ByIdAnswers == {"raises", "no_links", "ok"}

\* what the client answers to one resolve_page_link: get_page_by_id is invoked for a
\* current page only
PageAnswers ==
    {<<t, "">> : t \in ByTitleAnswers \ {"current"}} \cup {<<"current", d>> : d \in ByIdAnswers}

\* get_user_details_by_accountid: raises, returns nothing, a user without "publicName",
\* a user with one
UserAnswers == {"raises", "none", "no_name", "ok"}

\* the try block of resolve_page_link (lines 38-47): the exception it ends with
\* ("" = none) or the value it returns, and the invocations of the client
PageLookup(title, by_title, by_id) ==
    IF by_title = "raises" THEN [exc |-> "Exception", value |-> <<>>, invoked |-> 1]
    ELSE IF by_title = "none" THEN [exc |-> "", value |-> <<title, "None">>, invoked |-> 1]
    ELSE IF by_title = "no_status" THEN [exc |-> "KeyError", value |-> <<>>, invoked |-> 1]
    ELSE IF by_title = "archived"
         THEN [exc |-> "", value |-> <<title, "None">>, invoked |-> 1]
    ELSE IF by_id = "raises" THEN [exc |-> "Exception", value |-> <<>>, invoked |-> 2]
    ELSE IF by_id = "no_links" THEN [exc |-> "KeyError", value |-> <<>>, invoked |-> 2]
    ELSE [exc |-> "", value |-> <<title, "url">>, invoked |-> 2]

\* a variant without the except block
ResolvePageLinkUncaught(title, by_title, by_id) == PageLookup(title, by_title, by_id)

\* the body of resolve_page_link (lines 34-50)
ResolvePageLink(title, by_title, by_id) ==
    IF PageLookup(title, by_title, by_id).exc = "" THEN PageLookup(title, by_title, by_id)
    ELSE [PageLookup(title, by_title, by_id) EXCEPT !.exc = "", !.value = <<title, "None">>]

\* the try block of resolve_user_link (lines 64-70)
UserLookup(account_id, details) ==
    IF details = "raises" THEN [exc |-> "Exception", value |-> <<>>, invoked |-> 1]
    ELSE IF details = "none"
         THEN [exc |-> "", value |-> <<"User account_id: ", account_id>>, invoked |-> 1]
    ELSE IF details = "no_name" THEN [exc |-> "KeyError", value |-> <<>>, invoked |-> 1]
    ELSE [exc |-> "", value |-> <<"publicName of ", account_id>>, invoked |-> 1]

\* the body of resolve_user_link (lines 63-73)
ResolveUserLink(account_id, details) ==
    IF UserLookup(account_id, details).exc = "" THEN UserLookup(account_id, details)
    ELSE [UserLookup(account_id, details) EXCEPT
             !.exc = "", !.value = <<"User account_id: ", account_id>>]

\* lru_cache: the entry of key, if any
CacheHit(cache, key) == \E k \in 1..Len(cache) : cache[k].key = key

CacheValue(cache, key) == cache[CHOOSE k \in 1..Len(cache) : cache[k].key = key].value

\* lru_cache: key has just been used: its entry becomes the most recent one, and the
\* least recently used entry leaves a cache that is over maxsize
CacheTouch(cache, key, value) ==
    LET others == SelectSeq(cache, LAMBDA e : e.key # key)
        all == Append(others, [key |-> key, value |-> value])
    IN IF Len(all) > CacheMaxSize THEN Tail(all) ELSE all

\* the resolver has answered call: what it returned first for the key of the call, and
\* how many times it has run the body for that key
Remember(seen, key, call) ==
    IF key \in DOMAIN seen
    THEN [seen EXCEPT ![key].lookups = @ + (IF call.hit THEN 0 ELSE 1)]
    ELSE Put(seen, key, [value |-> call.value, lookups |-> 1])

\* a call through lru_cache: answer is what the body returns if it runs
Cached(cache, key, answer) ==
    IF CacheHit(cache, key)
    THEN [key |-> key, hit |-> TRUE, exc |-> "", value |-> CacheValue(cache, key),
          invoked |-> 0,
          cache |-> CacheTouch(cache, key, CacheValue(cache, key))]
    ELSE [key |-> key, hit |-> FALSE, exc |-> answer.exc, value |-> answer.value,
          invoked |-> answer.invoked,
          cache |-> IF answer.exc = "" THEN CacheTouch(cache, key, answer.value)
                    ELSE cache]

\* ConfluenceResolver.__init__
InitResolver ==
    /\ page_cache = <<>>
    /\ user_cache = <<>>
    /\ client_calls = 0
    /\ returned = <<>>
    /\ first_returned = EmptyDict
    /\ chunk_token_limit = 1 /\ overlap = 0 /\ overlap_arg = 0
    /\ NoChunker /\ NoBatch /\ NoLinks /\ NoClean /\ NoBackup /\ NoMore

\* one call of a method of the resolver has ended as call
Answer(fn, call, calls, asked) ==
    /\ returned' = [fn |-> fn, key |-> call.key, hit |-> call.hit, exc |-> call.exc,
                    value |-> call.value, nth |-> calls + 1, asked |-> asked]
    /\ client_calls' = client_calls + call.invoked
    /\ first_returned' = IF call.exc = ""
                         THEN Remember(first_returned, <<fn, call.key>>, call)
                         ELSE first_returned

\* how many calls of the resolver have ended
CallsMade == IF returned = <<>> THEN 0 ELSE returned.nth

\* resolve_page_link(title, '')
CallResolvePageLink ==
    /\ CallsMade < MaxCalls
    /\ \E title \in ResolverKeys, a \in PageAnswers :
           /\ Answer("page", Cached(page_cache, title, ResolvePageLink(title, a[1], a[2])),
                     CallsMade, IF a = <<"current", "ok">> THEN "found" ELSE "failed")
           /\ page_cache' = Cached(page_cache, title,
                                   ResolvePageLink(title, a[1], a[2])).cache
    /\ UNCHANGED <<user_cache, chunk_token_limit, overlap, chunkerVars, pageVars,
                   overlap_arg, linkVars, cleanVars, backupVars, moreVars>>

\* resolve_user_link(account_id)
CallResolveUserLink ==
    /\ CallsMade < MaxCalls
    /\ \E account_id \in ResolverKeys, details \in UserAnswers :
           /\ Answer("user", Cached(user_cache, account_id,
                                    ResolveUserLink(account_id, details)),
                     CallsMade, IF details = "ok" THEN "found" ELSE "failed")
           /\ user_cache' = Cached(user_cache, account_id,
                                   ResolveUserLink(account_id, details)).cache
    /\ UNCHANGED <<page_cache, chunk_token_limit, overlap, chunkerVars, pageVars,
                   overlap_arg, linkVars, cleanVars, backupVars, moreVars>>

NextResolver == CallResolvePageLink \/ CallResolveUserLink

SpecResolver == InitResolver /\ [][NextResolver]_vars

\* C13: no call of the resolver raises; a call that found no page returns the title it
\* was given and None, a call that found no user returns the fallback string holding the
\* account id it was given
C13_ResolverNeverRaises ==
    returned # <<>> =>
        /\ returned.exc = ""
        /\ (returned.fn = "page" /\ ~returned.hit)
               => returned.value = <<returned.key,
                                     IF returned.asked = "found" THEN "url" ELSE "None">>
        /\ (returned.fn = "user" /\ ~returned.hit /\ returned.asked = "failed")
               => returned.value = <<"User account_id: ", returned.key>>

C13_Witness ==
    /\ returned # <<>>
    /\ ~returned.hit
    /\ returned.fn = "user"
    /\ returned.value = <<"User account_id: ", returned.key>>
    /\ returned.asked = "failed"
    /\ \E k \in 1..Len(page_cache) : page_cache[k].value[2] = "None"

\* C14: once the resolver has returned for a key, it never runs the body for that key
\* again, and every later call with the key returns what the first one returned
C14_MemoizedForever ==
    \A k \in DOMAIN first_returned :
        /\ first_returned[k].lookups = 1
        /\ (returned.fn = k[1] /\ returned.key = k[2])
               => returned.value = first_returned[k].value

(* ---------------------- HtmlCleaner.clean_html on strings -------------- *)
(* A string is the sequence of its pieces: the letter x, a white-space      *)
(* character, U+200B, an ampersand escaped depth times (&, &amp;,           *)
(* &amp;amp;), the markup <b> escaped depth times (<b>, &lt;b&gt;,          *)
(* &amp;lt;b&amp;gt;), and a piece of markup the parser rejects.            *)
Letter == [kind |-> "word", depth |-> 0]
Space == [kind |-> "space", depth |-> 0]
ZeroWidthSpace == [kind |-> "zwsp", depth |-> 0]
Ampersand(n) == [kind |-> "amp", depth |-> n]
Markup(n) == [kind |-> "tag", depth |-> n]
Rejected == [kind |-> "bad", depth |-> 0]

MaxDepth == 2

Pieces ==
    {Letter, Space, ZeroWidthSpace, Rejected}
        \cup {Ampersand(n) : n \in 0..MaxDepth} \cup {Markup(n) : n \in 0..MaxDepth}

Strings == UNION {[1..n -> Pieces] : n \in 0..MaxChars}

\* the parser replaces a character reference by the character it names
Unescape(c) == IF c.depth > 0 THEN [c EXCEPT !.depth = c.depth - 1] ELSE c

\* BeautifulSoup(html, "html.parser"): the text nodes of the document, a tag ending the
\* text node before it
RECURSIVE TextNodes(_, _)
TextNodes(s, node) ==
    IF s = <<>> THEN <<node>>
    ELSE IF Head(s) = Markup(0) THEN <<node>> \o TextNodes(Tail(s), <<>>)
    ELSE TextNodes(Tail(s), Append(node, Unescape(Head(s))))

\* str.strip()
RECURSIVE LStrip(_)
LStrip(s) == IF s # <<>> /\ Head(s) = Space THEN LStrip(Tail(s)) ELSE s

RECURSIVE RStrip(_)
RStrip(s) ==
    IF s # <<>> /\ s[Len(s)] = Space THEN RStrip(SubSeq(s, 1, Len(s) - 1)) ELSE s

Strip(s) == RStrip(LStrip(s))

\* soup.get_text(separator=' ', strip=True)
RECURSIVE JoinStripped(_)
JoinStripped(nodes) ==
    IF nodes = <<>> THEN <<>>
    ELSE LET t == Strip(Head(nodes))
             rest == JoinStripped(Tail(nodes))
         IN IF t = <<>> THEN rest
            ELSE IF rest = <<>> THEN t
            ELSE t \o <<Space>> \o rest

\* re.sub(r'[\xa0\u200b\t\n\r]+', ' ', text)
SubInvisible(s) == [k \in 1..Len(s) |-> IF s[k] = ZeroWidthSpace THEN Space ELSE s[k]]

\* re.sub(r'\s{2,}', ' ', text), a white-space character of the model standing for any of
\* them
RECURSIVE CollapseSpaces(_)
CollapseSpaces(s) ==
    IF Len(s) < 2 THEN s
    ELSE IF s[1] = Space /\ s[2] = Space THEN CollapseSpaces(Tail(s))
    ELSE <<Head(s)>> \o CollapseSpaces(Tail(s))

\* the parser raising on markup it rejects
ParserRaises(s) == \E k \in 1..Len(s) : s[k] = Rejected

\* HtmlCleaner.clean_html(html, None)
CleanHtmlString(s) ==
    IF ParserRaises(s)
    THEN [exc |-> "", value |-> Strip(CollapseSpaces(s))]
    ELSE [exc |-> "",
          value |-> Strip(CollapseSpaces(SubInvisible(JoinStripped(TextNodes(s, <<>>)))))]

InitClean ==
    /\ raw \in Strings
    /\ cleaned = [step |-> 0, once |-> <<>>, twice |-> <<>>]
    /\ chunk_token_limit = 1
    /\ overlap = 0
    /\ overlap_arg = 0
    /\ NoChunker /\ NoBatch /\ NoLinks /\ NoResolver /\ NoBackup /\ NoMore

\* clean_html(x, None)
CleanOnce ==
    /\ cleaned.step = 0
    /\ cleaned' = [cleaned EXCEPT !.step = 1, !.once = CleanHtmlString(raw)]
    /\ UNCHANGED <<raw, chunk_token_limit, overlap, overlap_arg, chunkerVars, pageVars,
                   linkVars, resolverVars, backupVars, moreVars>>

\* clean_html(clean_html(x, None), None)
CleanTwice ==
    /\ cleaned.step = 1
    /\ cleaned.once.exc = ""
    /\ cleaned' = [cleaned EXCEPT !.step = 2, !.twice = CleanHtmlString(cleaned.once.value)]
    /\ UNCHANGED <<raw, chunk_token_limit, overlap, overlap_arg, chunkerVars, pageVars,
                   linkVars, resolverVars, backupVars, moreVars>>

NextClean == CleanOnce \/ CleanTwice

SpecClean == InitClean /\ [][NextClean]_vars

\* C18: cleaning to plain text never raises, and cleaning the cleaned text again gives
\* the same text
C18_PlainTextIdempotent ==
    /\ cleaned.step >= 1 => cleaned.once.exc = ""
    /\ cleaned.step = 2 => cleaned.twice = cleaned.once

(* ---------------------- DocumentChunker.__init__ ----------------------- *)
\* the overlap argument in percent: below, at the ends of, inside and above [0.0, 0.5]
OverlapArgs == {0 - 25, 0, 25, 50, 75, 100}

ConstructBudgets == 1..(MaxBudget + 1)

\* a chunker not yet constructed, and the document it will be given
InitConstruct ==
    /\ html \in Documents
    /\ chunk_token_limit = 0
    /\ overlap = 0
    /\ overlap_arg = 0
    /\ i = 1
    /\ chunks = <<>>
    /\ current_chunk = <<>>
    /\ last_chunk_content = <<>>
    /\ raised = ""
    /\ pc = "new"
    /\ result = <<>>
    /\ NoBatch /\ NoLinks /\ NoResolver /\ NoClean /\ NoBackup /\ NoMore

\* DocumentChunker(html_cleaner, token_counter, chunk_token_limit, overlap)
Construct ==
    /\ pc = "new"
    /\ \E L \in ConstructBudgets, arg \in OverlapArgs :
           /\ chunk_token_limit' = L
           /\ overlap_arg' = arg
           /\ overlap' = ClampOverlap(arg)
    /\ chunks' = <<>>
    /\ current_chunk' = <<>>
    /\ last_chunk_content' = <<>>
    /\ pc' = "walk"
    /\ UNCHANGED <<html, i, raised, result, pageVars, linkVars, resolverVars, cleanVars,
                   backupVars, moreVars>>

NextConstruct == Construct \/ HeaderWithContent \/ RegularElement \/ FinishWalk \/ Fallback

SpecConstruct == InitConstruct /\ [][NextConstruct]_vars

\* C19: the overlap a chunker stores is its argument clamped to [0.0, 0.5], and the words
\* that _finalize_chunk carries into the next chunk are never more than half the budget
C19_OverlapClamped ==
    pc # "new" =>
        /\ overlap_arg < 0 => overlap = 0
        /\ overlap_arg > 50 => overlap = 50
        /\ overlap_arg \in 0..50 => overlap = overlap_arg
        /\ Len(GetText(FinalizeChunk(Self, chunk_token_limit, overlap).cur))
               <= chunk_token_limit \div 2
        /\ (pc = "done" /\ raised = "")
               => Len(GetText(current_chunk)) <= chunk_token_limit \div 2

\* a walk has ended with an argument above 0.5 and a carry of exactly half the budget
C19_Witness ==
    /\ pc = "done"
    /\ raised = ""
    /\ overlap_arg > 50
    /\ overlap = 50
    /\ chunk_token_limit = MaxBudget + 1
    /\ Len(chunks) > 1
    /\ Len(GetText(current_chunk)) = chunk_token_limit \div 2

(* ----------------------------- BackupClient ---------------------------- *)
(* An object name is the sequence of its characters.  The time stamp that   *)
(* get_current_timestamp() returns in second s is the one-character name    *)
(* <<ToString(s)>>: time stamps all have the same length.  A bucket is the  *)
(* set of its objects, an object a name and a creation time.                *)
Slash == "/"
FileA == "a"
FileB == "b"
CharO == "o"
CharR == "r"

Blob(name, created) == [name |-> name, time_created |-> created]

\* utilities.get_current_timestamp in second s
GetCurrentTimestamp(s) == <<ToString(s)>>

\* name.split("/")[0]
RECURSIVE FirstPart(_)
FirstPart(name) ==
    IF name = <<>> \/ Head(name) = Slash THEN <<>> ELSE <<Head(name)>> \o FirstPart(Tail(name))

\* len(name.split("/", 1)) > 1
HasSlash(name) == \E k \in 1..Len(name) : name[k] = Slash

\* str.startswith, which list_blobs(prefix=...) applies to the names
StartsWith(name, prefix) ==
    /\ Len(prefix) <= Len(name)
    /\ SubSeq(name, 1, Len(prefix)) = prefix

\* BackupClient.get_folders: the keys of the dictionary it returns
GetFolders(bucket) == {FirstPart(b.name) \o <<Slash>> : b \in {x \in bucket : HasSlash(x.name)}}

\* BackupClient.get_oldest_blob, for a bucket that is not empty
GetOldestBlob(bucket) ==
    CHOOSE b \in bucket : \A other \in bucket : b.time_created <= other.time_created

\* BackupClient.delete_folder: the bucket without the objects it deletes
DeleteFolder(bucket, folder_name) == {b \in bucket : ~StartsWith(b.name, folder_name)}

\* lines 146-152 of backup: the rotation
Rotate(bucket, n) ==
    IF Cardinality(GetFolders(bucket)) >= n /\ bucket # {}
    THEN DeleteFolder(bucket, FirstPart(GetOldestBlob(bucket).name))
    ELSE bucket

\* lines 154-162 of backup: every object of the source copied under the time stamp, a
\* copy replacing the object of the same name
CopyBlobs(bucket, files, stamp, created) ==
    LET copies == {Blob(stamp \o <<Slash, f>>, created) : f \in files}
    IN {b \in bucket : \A c \in copies : c.name # b.name} \cup copies

\* what a destination bucket may hold before the first call: backups of seconds 1 and 2,
\* the folders o/ and oo/, and the object r at the top level, created in the order r,
\* o/, 1/, 2/, oo/
EarlierObjects ==
    {Blob(<<CharR>>, 1), Blob(<<CharO, Slash, FileA>>, 2),
     Blob(GetCurrentTimestamp(1) \o <<Slash, FileA>>, 3),
     Blob(GetCurrentTimestamp(2) \o <<Slash, FileA>>, 4),
     Blob(<<CharO, CharO, Slash, FileA>>, 5)}

InitBackup ==
    /\ backups_number \in 1..MaxBackups
    /\ source \in SUBSET {FileA, FileB}
    /\ destination \in {d \in SUBSET EarlierObjects :
                            Cardinality(GetFolders(d)) <= backups_number}
    /\ clock = [now |-> 3, created |-> Cardinality(EarlierObjects)]
    /\ last_backup = <<>>
    /\ chunk_token_limit = 1 /\ overlap = 0 /\ overlap_arg = 0
    /\ NoChunker /\ NoBatch /\ NoLinks /\ NoResolver /\ NoClean /\ NoMore

\* BackupClient.backup(backups_number), both buckets existing
Backup ==
    /\ clock.created < Cardinality(EarlierObjects) + MaxBackupCalls
    /\ destination' =
           IF source = {} THEN destination
           ELSE CopyBlobs(Rotate(destination, backups_number), source,
                          GetCurrentTimestamp(clock.now), clock.created + 1)
    /\ clock' = [clock EXCEPT !.created = clock.created + 1]
    /\ last_backup' = [before |-> destination, copied |-> Cardinality(source),
                       folder |-> GetCurrentTimestamp(clock.now) \o <<Slash>>]
    /\ UNCHANGED <<source, backups_number, chunk_token_limit, overlap, overlap_arg,
                   chunkerVars, pageVars, linkVars, resolverVars, cleanVars, moreVars>>

\* a second passes
Tick ==
    /\ clock.now < MaxSeconds
    /\ clock' = [clock EXCEPT !.now = clock.now + 1]
    /\ UNCHANGED <<source, destination, backups_number, last_backup, chunk_token_limit,
                   overlap, overlap_arg, chunkerVars, pageVars, linkVars, resolverVars,
                   cleanVars, moreVars>>

NextBackup == Backup \/ Tick

SpecBackup == InitBackup /\ [][NextBackup]_vars

\* the folder of the backup written first
OldestBackup(bucket) ==
    FirstPart(GetOldestBlob({b \in bucket : HasSlash(b.name)}).name) \o <<Slash>>

\* C20: the destination never holds more than backups_number folders, a call that copied
\* something leaves the folder it wrote in the destination, and the only folder a call
\* removes is the oldest one
C20_RotationKeepsN ==
    /\ Cardinality(GetFolders(destination)) <= backups_number
    /\ (last_backup # <<>> /\ last_backup.copied > 0) =>
           /\ last_backup.folder \in GetFolders(destination)
           /\ \A f \in GetFolders(last_backup.before) \ GetFolders(destination) :
                  f = OldestBackup(last_backup.before)

(* ------------------ properties of the splitting operations ------------- *)
\* C23: a word window over the budget never ends the tree walk: the undefined method of
\* line 473 is never reached, so the walk neither raises nor hands over to the fallback
C23_WindowRepacked == raised # "AttributeError"

\* the text nodes of a forest, at any depth
RECURSIVE NavigableStrings(_)
NavigableStrings(forest) ==
    IF forest = <<>> THEN {}
    ELSE LET n == Head(forest)
         IN (IF n.kind = "text" THEN {n.words} ELSE NavigableStrings(n.kids))
                \cup NavigableStrings(Tail(forest))

\* the tags of a forest, at any depth
RECURSIVE Tags(_)
Tags(forest) ==
    IF forest = <<>> THEN {}
    ELSE LET n == Head(forest)
         IN (IF n.kind = "tag" THEN {n} \cup Tags(n.kids) ELSE {})
                \cup Tags(Tail(forest))

\* the forests of a sequence of parts, one after the other
RECURSIVE JoinParts(_)
JoinParts(parts) == IF parts = <<>> THEN <<>> ELSE Head(parts) \o JoinParts(Tail(parts))

\* C24: the parts _split_tag returns for an element over the budget hold the words of
\* the element once each and in their order, and every part is one copy of the tag
C24_SplitTagPartitions ==
    \A tag \in Tags(html) :
        (/\ pc = "done" /\ raised = ""
         /\ CountTokens(<<tag>>) > chunk_token_limit
         /\ SplitTag(tag, chunk_token_limit).exc = "")
            => LET parts == SplitTag(tag, chunk_token_limit).parts
               IN /\ GetText(JoinParts(parts)) = GetText(<<tag>>)
                  /\ \A k \in 1..Len(parts) :
                         /\ Len(parts[k]) = 1
                         /\ parts[k][1].kind = "tag"
                         /\ parts[k][1].name = tag.name
                         /\ parts[k][1].href = tag.href

\* C25: every part _split_text_node returns for a text of more than one sentence is
\* within the budget
C25_SentencePartsWithinBudget ==
    \A ws \in NavigableStrings(html) :
        (/\ pc = "done" /\ raised = ""
         /\ Tokenizer(ws) > chunk_token_limit
         /\ Len(Sentences(ws, <<>>)) > 1)
            => LET r == SplitTextNode(ws, chunk_token_limit)
               IN /\ r.exc = ""
                  /\ \A k \in 1..Len(r.parts) : CountTokens(r.parts[k]) <= chunk_token_limit

\* C26: when chunk_document has finalized its last segment and the overlap asks for at
\* least one word, _finalize_chunk has left a carry in the current chunk
C26_CarryAlwaysSeeded ==
    (pc = "done" /\ raised = "" /\ overlap > 0 /\ chunks # <<>>
        /\ OverlapSize(chunk_token_limit, overlap) > 0)
        => current_chunk # <<>>

\* C27: every segment the fallback returns is within the budget or is a single word
C27_FallbackWithinBudget ==
    (pc = "done" /\ raised # "")
        => \A k \in 1..Len(result) :
               \/ Tokenizer(result[k].page_content) <= chunk_token_limit
               \/ Len(result[k].page_content) = 1

\* C28: no segment chunk_document returns or holds has an empty text
C28_NoEmptySegment ==
    /\ \A k \in 1..Len(chunks) : chunks[k].page_content # <<>>
    /\ pc = "done" => \A k \in 1..Len(result) : result[k].page_content # <<>>

(* ---------------------- properties of _process_html_links -------------- *)
\* the nodes of the fragment that are hyperlinks whose visible text starts with http
UrlTextLinks == {k \in 1..Len(fragment) :
                     fragment[k].kind = "a" /\ StartsWithHttp(fragment[k].text)}

\* C30: every hyperlink whose visible text starts with http is replaced by a placeholder
\* with an identifier of its own, and the link table maps that identifier to its href
C30_UrlTextLinksGetOwnIds ==
    lpc = "done" =>
        \A k \in UrlTextLinks :
            /\ soup[k].kind = "placeholder"
            /\ soup[k].text # fragment[k].text
            /\ soup[k].text \in DOMAIN link_metadata
            /\ link_metadata[soup[k].text] = fragment[k].href
            /\ \A j \in UrlTextLinks \ {k} : soup[j].text # soup[k].text

\* two such hyperlinks with different hrefs have been replaced
C30_Witness ==
    /\ lpc = "done"
    /\ \E k, j \in UrlTextLinks :
           /\ k # j
           /\ fragment[k].href # fragment[j].href
           /\ link_metadata[soup[k].text] = fragment[k].href
           /\ link_metadata[soup[j].text] = fragment[j].href

(* ------------------------ VertexAIChromaEmbedder ----------------------- *)
(* A document is a number and its embedding vector is the document.  What   *)
(* the model service does at an attempt, answer or raise, is chosen freely. *)
\* a variant of the loop test that allows one attempt more
LoopContinuesInclusive(attempts, retry_attempts) == attempts <= retry_attempts

\* _get_embeddings_with_retry line 79: the test of the while loop
LoopContinues(attempts, retry_attempts) == attempts < retry_attempts

\* _get_embeddings_batch: the vectors of the texts, when the service answers
GetEmbeddingsBatch(texts) == [k \in 1..Len(texts) |-> <<"vector", texts[k]>>]

\* a variant of the slice that leaves out the last document of a batch
BatchTextsShort(docs, start, size) ==
    SubSeq(docs, start + 1, Min(Len(docs), start + size - 1))

\* __call__ line 57: input[i : i + self.batch_size], i counted from 0
BatchTexts(docs, start, size) == SubSeq(docs, start + 1, Min(Len(docs), start + size))

\* the embedder after __init__, and __call__ at line 55 with its argument
InitEmbed ==
    /\ embedder \in [batch_size : 1..MaxBatchSize, retry_attempts : 0..MaxRetries]
    /\ input \in {[k \in 1..n |-> k] : n \in 0..MaxInputs}
    /\ ecall = [pc |-> "loop", i |-> 0, attempts |-> 0, log |-> <<>>,
                all_embeddings |-> <<>>]
    /\ chunk_token_limit = 1 /\ overlap = 0 /\ overlap_arg = 0
    /\ NoChunker /\ NoBatch /\ NoLinks /\ NoResolver /\ NoClean /\ NoBackup
    /\ NoFetch /\ NoHeap /\ NoLate

EmbedUnchanged ==
    UNCHANGED <<embedder, input, chunk_token_limit, overlap, overlap_arg, chunkerVars,
                pageVars, linkVars, resolverVars, cleanVars, backupVars, fetchVars, heapVars,
                lateVars>>

\* __call__ lines 56-58 and _get_embeddings_with_retry lines 76-77: the next batch
EnterBatch ==
    /\ ecall.pc = "loop"
    /\ ecall.i < Len(input)
    /\ ecall' = [ecall EXCEPT !.pc = "retry", !.attempts = 0, !.log = <<>>]
    /\ EmbedUnchanged

\* lines 79-81 and 59: an attempt that answers; its vectors are returned and appended
AttemptSucceeds ==
    /\ ecall.pc = "retry"
    /\ LoopContinues(ecall.attempts, embedder.retry_attempts)
    /\ ecall' = [ecall EXCEPT
                    !.pc = "loop",
                    !.log = Append(@, "ok"),
                    !.all_embeddings =
                        @ \o GetEmbeddingsBatch(BatchTexts(input, ecall.i, embedder.batch_size)),
                    !.i = @ + embedder.batch_size]
    /\ EmbedUnchanged

\* lines 79-84: an attempt that raises
AttemptFails ==
    /\ ecall.pc = "retry"
    /\ LoopContinues(ecall.attempts, embedder.retry_attempts)
    /\ ecall' = [ecall EXCEPT !.attempts = @ + 1, !.log = Append(@, "failed")]
    /\ EmbedUnchanged

\* lines 86-88: the loop has ended without an answer
RaiseFailure ==
    /\ ecall.pc = "retry"
    /\ ~LoopContinues(ecall.attempts, embedder.retry_attempts)
    /\ ecall' = [ecall EXCEPT !.pc = "raised"]
    /\ EmbedUnchanged

\* __call__ line 61
ReturnEmbeddings ==
    /\ ecall.pc = "loop"
    /\ ecall.i >= Len(input)
    /\ ecall' = [ecall EXCEPT !.pc = "returned"]
    /\ EmbedUnchanged

NextEmbed == EnterBatch \/ AttemptSucceeds \/ AttemptFails \/ RaiseFailure \/ ReturnEmbeddings

\* the statements of a call follow one another: no step is postponed for ever
SpecEmbed == InitEmbed /\ [][NextEmbed]_vars /\ WF_vars(NextEmbed)

\* the attempts made for the current batch respect retry_attempts
RetryBounded ==
    /\ Len(ecall.log) <= embedder.retry_attempts
    /\ \A k \in 1..(Len(ecall.log) - 1) : ecall.log[k] = "failed"
    /\ (ecall.log # <<>> /\ ecall.log[Len(ecall.log)] = "ok") => ecall.pc # "retry"
    /\ ecall.pc = "raised" =>
           /\ Len(ecall.log) = embedder.retry_attempts
           /\ \A k \in 1..Len(ecall.log) : ecall.log[k] = "failed"
    /\ ecall.pc \in {"loop", "returned"} =>
           ecall.all_embeddings =
               GetEmbeddingsBatch(SubSeq(input, 1, Min(Len(input), ecall.i)))

\* C22: for every batch the embedding call is made at most retry_attempts times, the
\* first attempt that answers ends the attempts and its vectors are the result, the
\* exception comes only after retry_attempts failed attempts, and every call ends
C22_RetryTerminates ==
    /\ []RetryBounded
    /\ <>(ecall.pc \in {"returned", "raised"})

\* a batch has been answered at the last attempt allowed, after an earlier batch
C22_Witness ==
    /\ ecall.pc = "loop"
    /\ ecall.i > embedder.batch_size
    /\ embedder.retry_attempts = MaxRetries
    /\ Len(ecall.log) = MaxRetries
    /\ ecall.log[Len(ecall.log)] = "ok"

(* ------------------ properties of VertexAIChromaEmbedder.__call__ ------- *)
\* C33: the list __call__ returns has the vector of every document, in the order of
\* the documents; while a batch is attempted, the batches before it were consecutive
\* slices of batch_size documents and the vectors so far are those of the documents
\* before the batch; a call that has raised returns nothing
C33_OneEmbeddingPerDocument ==
    /\ ecall # <<>> =>
        /\ ecall.pc = "returned" =>
               /\ Len(ecall.all_embeddings) = Len(input)
               /\ \A k \in 1..Len(input) : ecall.all_embeddings[k] = <<"vector", input[k]>>
        /\ ecall.pc = "retry" =>
               /\ ecall.i % embedder.batch_size = 0
               /\ ecall.i < Len(input)
               /\ Len(BatchTexts(input, ecall.i, embedder.batch_size)) \in 1..embedder.batch_size
               /\ ecall.all_embeddings = [k \in 1..ecall.i |-> <<"vector", input[k]>>]
        /\ ecall.pc = "raised" => Len(ecall.all_embeddings) < Len(input)

\* all documents are returned, the last batch was a short one and needed a second attempt
C33_Witness ==
    /\ ecall # <<>>
    /\ ecall.pc = "returned"
    /\ Len(input) = MaxInputs - 1
    /\ embedder.batch_size = MaxBatchSize
    /\ ecall.log = <<"failed", "ok">>
    /\ Len(ecall.all_embeddings) = Len(input)

(* ------------------- properties of the emitted segments ----------------- *)
\* the placeholder words of a text
PlaceholderWords(ws) == {k \in 1..Len(ws) : ws[k].ph}

\* C35: every placeholder in the text of a segment has one entry in the link table of
\* that segment, and the entry is the href of the link the placeholder stands for
C35_PlaceholdersHaveEntries ==
    \A k \in 1..Len(chunks) :
        \A j \in PlaceholderWords(chunks[k].page_content) :
            /\ Cardinality({e \in chunks[k].metadata :
                               e[1] = chunks[k].page_content[j].id}) = 1
            /\ \A e \in chunks[k].metadata :
                   e[1] = chunks[k].page_content[j].id => e \in LinkTable(html)

\* C36: with an overlap, no segment after the first is only the carry, i.e. the last
\* words of the segment before it
C36_NewContentBeyondCarry ==
    overlap > 0 =>
        \A k \in 2..Len(chunks) :
            chunks[k].page_content #
                LastWords(chunks[k - 1].page_content, OverlapSize(chunk_token_limit, overlap))

(* --------------------------- ConfluenceFetcher -------------------------- *)
(* The space the client reads is a sequence of pages: the id of a page is   *)
(* its position, its parent an earlier page or 0 at the top level.  Pages   *)
(* that are not current have no children.  ChildrenBatchSize stands for the *)
(* default batch_size=100 of get_page_children, CacheMaxSize for the 128    *)
(* entries of its lru_cache.                                                *)
WellFormedSpace(space) ==
    \A p \in 1..Len(space) :
        /\ space[p].parent < p
        /\ space[p].parent # 0 => space[space[p].parent].status = "current"

Spaces ==
    UNION {{space \in [1..n -> [parent : 0..(MaxPageIds - 1), status : {"current", "archived"}]] :
               WellFormedSpace(space)} : n \in 0..MaxPageIds}

\* exclude_roots: a list of page ids, some of which may not exist
RootChoices ==
    {<<>>} \cup {<<r>> : r \in 1..MaxPageIds}
           \cup {<<a, b>> : a \in 1..MaxPageIds, b \in 2..MaxPageIds}

PageObject(space, p) == [id |-> p, status |-> space[p].status]

\* Confluence.get_all_pages_from_space(space, status="current"): the whole listing
GetAllPagesFromSpace(space) ==
    SelectSeq([p \in 1..Len(space) |-> PageObject(space, p)],
              LAMBDA page : page.status = "current")

\* Confluence.get_page_child_by_type(page_id, type="page"): the whole listing
GetPageChildByType(space, page_id) ==
    SelectSeq([p \in 1..Len(space) |-> PageObject(space, p)],
              LAMBDA page : page.status = "current" /\ space[page.id].parent = page_id)

\* the pagination loop of lines 41-53 and 131-143: requests of limit entries from
\* start, until a request comes back empty or short
RECURSIVE Paginate(_, _, _, _)
Paginate(listing, start, limit, all_pages) ==
    LET batch == SubSeq(listing, start + 1, Min(Len(listing), start + limit))
    IN IF batch = <<>> THEN all_pages
       ELSE IF Len(batch) < limit THEN all_pages \o batch
       ELSE Paginate(listing, start + Len(batch), limit, all_pages \o batch)

\* the body of get_page_children, lines 37-55
GetPageChildren(space, page_id) ==
    Paginate(GetPageChildByType(space, page_id), 0, ChildrenBatchSize, <<>>)

\* get_page_tree: the breadth-first walk from the queue; get_page_children answers
\* from its lru_cache when it holds the page, and raises for a page the space lacks
RECURSIVE GetPageTree(_, _, _, _)
GetPageTree(space, queue, tree_ids, cache) ==
    IF queue = <<>> THEN [ids |-> tree_ids, cache |-> cache, exc |-> FALSE]
    ELSE IF CacheHit(cache, Head(queue))
    THEN GetPageTree(space,
                     Tail(queue) \o [k \in 1..Len(CacheValue(cache, Head(queue))) |->
                                        CacheValue(cache, Head(queue))[k].id],
                     tree_ids \cup {c.id : c \in Range(CacheValue(cache, Head(queue)))},
                     CacheTouch(cache, Head(queue), CacheValue(cache, Head(queue))))
    ELSE IF Head(queue) \notin 1..Len(space)
    THEN [ids |-> tree_ids, cache |-> cache, exc |-> TRUE]
    ELSE GetPageTree(space,
                     Tail(queue) \o [k \in 1..Len(GetPageChildren(space, Head(queue))) |->
                                        GetPageChildren(space, Head(queue))[k].id],
                     tree_ids \cup {c.id : c \in Range(GetPageChildren(space, Head(queue)))},
                     CacheTouch(cache, Head(queue), GetPageChildren(space, Head(queue))))

\* get_excluded_pages: the union of the trees of the roots
RECURSIVE GetExcludedPages(_, _, _, _)
GetExcludedPages(space, roots, excluded_ids, cache) ==
    IF roots = <<>> THEN [ids |-> excluded_ids, cache |-> cache, exc |-> FALSE]
    ELSE LET tree == GetPageTree(space, <<Head(roots)>>, {Head(roots)}, cache)
         IN IF tree.exc THEN [ids |-> excluded_ids, cache |-> tree.cache, exc |-> TRUE]
            ELSE GetExcludedPages(space, Tail(roots), excluded_ids \cup tree.ids, tree.cache)

\* lines 150-151
CurrentIds(all_pages) ==
    {all_pages[k].id : k \in {j \in 1..Len(all_pages) : all_pages[j].status = "current"}}

\* list(page_ids): every member once (here in increasing order)
RECURSIVE ListOf(_)
ListOf(ids) ==
    IF ids = {} THEN <<>>
    ELSE LET least == CHOOSE x \in ids : \A y \in ids : x <= y
         IN <<least>> \o ListOf(ids \ {least})

\* what get_all_space_pages returns or raises, and the cache it leaves
SpacePages(space, roots, batch_size, cache) ==
    IF roots = <<>>
    THEN [result |-> ListOf(CurrentIds(Paginate(GetAllPagesFromSpace(space), 0, batch_size, <<>>))),
          cache |-> cache, exc |-> FALSE]
    ELSE LET excluded == GetExcludedPages(space, roots, {}, cache)
         IN IF excluded.exc
            THEN [result |-> <<>>, cache |-> excluded.cache, exc |-> TRUE]
            ELSE [result |-> ListOf(CurrentIds(Paginate(GetAllPagesFromSpace(space), 0,
                                                         batch_size, <<>>)) \ excluded.ids),
                  cache |-> excluded.cache, exc |-> FALSE]

\* a fetcher that has not been called, over any space
InitFetch ==
    /\ remote \in Spaces
    /\ children_cache = <<>>
    /\ fetched = <<>>
    /\ lookups = <<>>
    /\ chunk_token_limit = 1 /\ overlap = 0 /\ overlap_arg = 0
    /\ NoChunker /\ NoBatch /\ NoLinks /\ NoResolver /\ NoClean /\ NoBackup
    /\ NoEmbed /\ NoHeap /\ NoLate

FetchUnchanged ==
    UNCHANGED <<chunk_token_limit, overlap, overlap_arg, chunkerVars, pageVars, linkVars,
                resolverVars, cleanVars, backupVars, embedVars, heapVars,
                lateVars>>

\* one call of get_all_space_pages on the fetcher
GetAllSpacePages ==
    \E roots \in RootChoices, batch_size \in 1..MaxBatch :
        /\ Len(fetched) < MaxFetches
        /\ fetched' = Append(fetched,
                             [space |-> remote, exclude_roots |-> roots,
                              result |-> SpacePages(remote, roots, batch_size, children_cache).result,
                              raised |-> SpacePages(remote, roots, batch_size, children_cache).exc])
        /\ children_cache' = SpacePages(remote, roots, batch_size, children_cache).cache
        /\ UNCHANGED <<remote, lookups>>
        /\ FetchUnchanged

\* somebody creates a page in the space between two calls
AddPage ==
    \E parent \in 0..Len(remote), status \in {"current", "archived"} :
        /\ Len(remote) < MaxPageIds
        /\ WellFormedSpace(Append(remote, [parent |-> parent, status |-> status]))
        /\ remote' = Append(remote, [parent |-> parent, status |-> status])
        /\ UNCHANGED <<children_cache, fetched, lookups>>
        /\ FetchUnchanged

\* the key lru_cache files a call of get_page_children under: the page alone when
\* batch_size is left to its default (0 here), the page and the batch size otherwise
ChildrenKey(page_id, batch_size) == page_id + (MaxPageIds + 1) * batch_size

\* get_page_children as its callers see it: the answer of the lru_cache of line 26
\* when it holds the key, else the body of lines 37-59, whose answer is then cached
CachedPageChildren(space, page_id, batch_size, cache) ==
    IF CacheHit(cache, ChildrenKey(page_id, batch_size))
    THEN [children |-> CacheValue(cache, ChildrenKey(page_id, batch_size)),
          cache |-> CacheTouch(cache, ChildrenKey(page_id, batch_size),
                               CacheValue(cache, ChildrenKey(page_id, batch_size))),
          exc |-> FALSE]
    ELSE IF page_id \notin 1..Len(space)
    THEN [children |-> <<>>, cache |-> cache, exc |-> TRUE]
    ELSE [children |-> Paginate(GetPageChildByType(space, page_id), 0,
                                IF batch_size = 0 THEN ChildrenBatchSize ELSE batch_size,
                                <<>>),
          cache |-> CacheTouch(cache, ChildrenKey(page_id, batch_size),
                               Paginate(GetPageChildByType(space, page_id), 0,
                                        IF batch_size = 0 THEN ChildrenBatchSize
                                        ELSE batch_size,
                                        <<>>)),
          exc |-> FALSE]

Reverse(seq) == [k \in 1..Len(seq) |-> seq[Len(seq) + 1 - k]]

\* get_page_tree lines 80-82: the lookups of one batch, in the order the workers
\* complete them; answers holds the children of every page looked up
RECURSIVE LookupAll(_, _, _, _)
LookupAll(space, order, cache, answers) ==
    IF order = <<>> THEN [answers |-> answers, cache |-> cache, exc |-> FALSE]
    ELSE IF CachedPageChildren(space, Head(order), 0, cache).exc
    THEN [answers |-> answers, cache |-> cache, exc |-> TRUE]
    ELSE LookupAll(space, Tail(order),
                   CachedPageChildren(space, Head(order), 0, cache).cache,
                   Put(answers, Head(order),
                       CachedPageChildren(space, Head(order), 0, cache).children))

\* lines 84-87: the ids of the children, batch order (executor.map keeps it)
ChildIds(current_batch, answers) ==
    Flatten([k \in 1..Len(current_batch) |->
                [j \in 1..Len(answers[current_batch[k]]) |-> answers[current_batch[k]][j].id]])

\* get_page_tree lines 73-89 with its batches of max_workers * 2 pages
RECURSIVE WalkTree(_, _, _, _, _, _)
WalkTree(space, queue, tree_ids, cache, max_workers, backwards) ==
    IF queue = <<>> THEN [ids |-> tree_ids, cache |-> cache, exc |-> FALSE]
    ELSE LET current_batch == SubSeq(queue, 1, Min(Len(queue), max_workers * 2))
             looked == LookupAll(space,
                                 IF backwards THEN Reverse(current_batch) ELSE current_batch,
                                 cache, EmptyDict)
         IN IF looked.exc THEN [ids |-> tree_ids, cache |-> looked.cache, exc |-> TRUE]
            ELSE WalkTree(space,
                          SubSeq(queue, Len(current_batch) + 1, Len(queue))
                              \o ChildIds(current_batch, looked.answers),
                          tree_ids \cup Range(ChildIds(current_batch, looked.answers)),
                          looked.cache, max_workers, backwards)

\* a direct call of get_page_children
CallGetPageChildren ==
    \E page_id \in 1..MaxPageIds, batch_size \in 0..MaxBatch :
        /\ Len(lookups) < MaxLookups
        /\ lookups' = Append(lookups,
               [kind |-> "children", space |-> remote, page_id |-> page_id,
                children |-> CachedPageChildren(remote, page_id, batch_size, children_cache).children,
                tree |-> {},
                raised |-> CachedPageChildren(remote, page_id, batch_size, children_cache).exc])
        /\ children_cache' = CachedPageChildren(remote, page_id, batch_size, children_cache).cache
        /\ UNCHANGED <<remote, fetched>>
        /\ FetchUnchanged

\* a direct call of get_page_tree, on a fetcher of max_workers workers
CallGetPageTree ==
    \E root_id \in 1..MaxPageIds, max_workers \in 1..MaxWorkers, backwards \in BOOLEAN :
        /\ Len(lookups) < MaxLookups
        /\ lookups' = Append(lookups,
               [kind |-> "tree", space |-> remote, page_id |-> root_id,
                children |-> <<>>,
                tree |-> WalkTree(remote, <<root_id>>, {root_id}, children_cache,
                                  max_workers, backwards).ids,
                raised |-> WalkTree(remote, <<root_id>>, {root_id}, children_cache,
                                    max_workers, backwards).exc])
        /\ children_cache' = WalkTree(remote, <<root_id>>, {root_id}, children_cache,
                                      max_workers, backwards).cache
        /\ UNCHANGED <<remote, fetched>>
        /\ FetchUnchanged

NextFetch == GetAllSpacePages \/ AddPage

NextLookups == CallGetPageChildren \/ CallGetPageTree \/ AddPage

SpecFetch == InitFetch /\ [][NextFetch]_vars

\* the fetcher used for its lookups alone
SpecLookups == InitFetch /\ [][NextLookups]_vars

\* p and the pages above it
RECURSIVE AncestorsOrSelf(_, _)
AncestorsOrSelf(space, p) ==
    IF p = 0 THEN {} ELSE {p} \cup AncestorsOrSelf(space, space[p].parent)

\* the list holds every current page outside the trees of the roots, once
ExactAnswer(call) ==
    /\ Range(call.result) =
           {p \in 1..Len(call.space) :
               /\ call.space[p].status = "current"
               /\ AncestorsOrSelf(call.space, p) \cap Range(call.exclude_roots) = {}}
    /\ \A a, b \in 1..Len(call.result) : call.result[a] = call.result[b] => a = b

\* C21: a call of get_all_space_pages that returns, returns every current page of the
\* space once and no page of the subtree of an excluded root
C21_CurrentPagesOutsideExcludedTrees ==
    \A k \in 1..Len(fetched) : ~fetched[k].raised => ExactAnswer(fetched[k])

\* the first call on a fetcher is exact
FirstCallExact ==
    (fetched # <<>> /\ lookups = <<>> /\ ~fetched[1].raised) => ExactAnswer(fetched[1])

(* ---------- properties of get_page_children and get_page_tree ----------- *)
\* C31: a call of get_page_children that returns, returns the children of the page as
\* the space lists them: all of them, in order, none twice
C31_AllChildrenInOrder ==
    \A k \in 1..Len(lookups) :
        (lookups[k].kind = "children" /\ ~lookups[k].raised)
            => lookups[k].children = GetPageChildByType(lookups[k].space, lookups[k].page_id)

\* the paging loop alone, for every page of the space and every batch size
PagingExact ==
    \A p \in 1..Len(remote), batch_size \in 1..(MaxBatch + 1) :
        Paginate(GetPageChildByType(remote, p), 0, batch_size, <<>>)
            = GetPageChildByType(remote, p)

\* C32: a call of get_page_tree that returns, returns the root and the pages below it
C32_RootAndDescendants ==
    \A k \in 1..Len(lookups) :
        (lookups[k].kind = "tree" /\ ~lookups[k].raised)
            => lookups[k].tree =
                   {p \in 1..Len(lookups[k].space) :
                       /\ lookups[k].page_id \in AncestorsOrSelf(lookups[k].space, p)
                       /\ \A q \in AncestorsOrSelf(lookups[k].space, p) :
                              q = lookups[k].page_id
                                  \/ lookups[k].space[q].status = "current"}

\* the first direct call on a fetcher that has made no other call
FirstLookupExact ==
    Len(lookups) = 1 => (C31_AllChildrenInOrder /\ C32_RootAndDescendants)

(* ------------------ the objects of DocumentChunker ---------------------- *)
(* The lists and dicts the chunker creates are objects of a heap; the id of *)
(* an object is its position.  A text is a sequence of pieces: "text", a    *)
(* "link" that process_links turns into a "placeholder" and an entry of the *)
(* link table, and "markup" that clean_html removes.                        *)
ListObject(items) ==
    [kind |-> "list", items |-> items, page_content |-> <<>>, metadata |-> 0, entries |-> {}]

ChunkObject(content, metadata_id) ==
    [kind |-> "dict", items |-> <<>>, page_content |-> content, metadata |-> metadata_id,
     entries |-> {}]

DictObject(entries) ==
    [kind |-> "metadata", items |-> <<>>, page_content |-> <<>>, metadata |-> 0,
     entries |-> entries]

ContentPieces == {"text", "link", "markup"}

\* process_links followed by clean_html, on the text
ProcessedContent(content) ==
    SelectSeq([k \in 1..Len(content) |->
                  IF content[k] = "link" THEN "placeholder" ELSE content[k]],
              LAMBDA piece : piece # "markup")

\* the link table process_links builds: one entry for each link, by its position
LinkEntries(content) == {k \in 1..Len(content) : content[k] = "link"}

\* a variant of line 544 that empties the dict self.current_chunk names
SameCurrentChunk(h, s) ==
    [heap |-> [h EXCEPT ![s.current_chunk].page_content = <<>>,
                        ![h[s.current_chunk].metadata].entries = {}],
     current_chunk |-> s.current_chunk]

\* lines 287 and 544: self.current_chunk = {'page_content': '', 'metadata': {}}
NewCurrentChunk(h, s) ==
    [heap |-> h \o <<DictObject({}), ChunkObject(<<>>, Len(h) + 1)>>,
     current_chunk |-> Len(h) + 2]

\* line 286: self.chunks = []
NewChunks(h) == [heap |-> Append(h, ListObject(<<>>)), chunks |-> Len(h) + 1]

\* _finalize_chunk lines 534-538: the dict process_links returns becomes the current one
LinksProcessed(h, s) ==
    IF h[s.current_chunk].page_content = <<>> THEN [heap |-> h, self |-> s]
    ELSE [heap |-> h \o <<DictObject(LinkEntries(h[s.current_chunk].page_content)),
                          ChunkObject(ProcessedContent(h[s.current_chunk].page_content),
                                      Len(h) + 1)>>,
          self |-> [s EXCEPT !.current_chunk = Len(h) + 2]]

\* lines 540-542: the current dict joins self.chunks
ChunkAppended(h, s) ==
    IF h[s.current_chunk].page_content = <<>> THEN [heap |-> h, self |-> s]
    ELSE [heap |-> [h EXCEPT ![s.chunks].items = Append(@, s.current_chunk)],
          self |-> [s EXCEPT !.last_chunk_content = h[s.current_chunk].page_content]]

\* lines 544-555: a new current dict, seeded with the end of the last segment
ChunkRebound(h, s, carry) ==
    [heap |-> IF carry /\ s.last_chunk_content # <<>>
              THEN [NewCurrentChunk(h, s).heap EXCEPT
                       ![NewCurrentChunk(h, s).current_chunk].page_content =
                           <<s.last_chunk_content[Len(s.last_chunk_content)]>>]
              ELSE NewCurrentChunk(h, s).heap,
     self |-> [s EXCEPT !.current_chunk = NewCurrentChunk(h, s).current_chunk]]

\* _finalize_chunk
FinalizedObjects(h, s, carry) ==
    ChunkRebound(ChunkAppended(LinksProcessed(h, s).heap, LinksProcessed(h, s).self).heap,
                 ChunkAppended(LinksProcessed(h, s).heap, LinksProcessed(h, s).self).self,
                 carry)

\* DocumentChunker.__init__ lines 256-258
InitObjects ==
    /\ heap = <<ListObject(<<>>), DictObject({}), ChunkObject(<<>>, 2)>>
    /\ self_ref = [chunks |-> 1, current_chunk |-> 3, last_chunk_content |-> <<>>,
                   documents |-> 0, finalizes |-> 0]
    /\ handed = <<>>
    /\ hpc = "idle"
    /\ chunk_token_limit = 1 /\ overlap = 0 /\ overlap_arg = 0
    /\ NoChunker /\ NoBatch /\ NoLinks /\ NoResolver /\ NoClean /\ NoBackup
    /\ NoFetch /\ NoEmbed /\ NoLate

ObjectsUnchanged ==
    UNCHANGED <<chunk_token_limit, overlap, overlap_arg, chunkerVars, pageVars, linkVars,
                resolverVars, cleanVars, backupVars, fetchVars, embedVars,
                lateVars>>

\* chunk_document lines 286-288
StartDocument ==
    /\ hpc = "idle"
    /\ self_ref.documents < MaxDocuments
    /\ heap' = NewCurrentChunk(NewChunks(heap).heap, self_ref).heap
    /\ self_ref' = [chunks |-> NewChunks(heap).chunks,
                    current_chunk |-> NewCurrentChunk(NewChunks(heap).heap, self_ref).current_chunk,
                    last_chunk_content |-> <<>>,
                    documents |-> self_ref.documents + 1,
                    finalizes |-> 0]
    /\ hpc' = "walking"
    /\ UNCHANGED handed
    /\ ObjectsUnchanged

\* self.current_chunk["page_content"] += ... (lines 355, 361, 375, 381, 397)
Accumulate ==
    \E piece \in ContentPieces :
        /\ hpc = "walking"
        /\ Len(heap[self_ref.current_chunk].page_content) < MaxPieces
        /\ heap' = [heap EXCEPT ![self_ref.current_chunk].page_content = Append(@, piece)]
        /\ UNCHANGED <<self_ref, handed, hpc>>
        /\ ObjectsUnchanged

\* a call of _finalize_chunk during the walk (lines 358, 380, 396)
FinalizeDuringWalk ==
    \E carry \in BOOLEAN :
        /\ hpc = "walking"
        /\ self_ref.finalizes < MaxFinalizes
        /\ heap' = FinalizedObjects(heap, self_ref, carry).heap
        /\ self_ref' = [FinalizedObjects(heap, self_ref, carry).self EXCEPT
                           !.finalizes = @ + 1]
        /\ UNCHANGED <<handed, hpc>>
        /\ ObjectsUnchanged

\* chunk_document lines 299-301: the last _finalize_chunk, and self.chunks is returned
ReturnSelfChunks ==
    \E carry \in BOOLEAN :
        /\ hpc = "walking"
        /\ heap' = FinalizedObjects(heap, self_ref, carry).heap
        /\ self_ref' = FinalizedObjects(heap, self_ref, carry).self
        /\ handed' = Append(handed, self_ref.chunks)
        /\ hpc' = "idle"
        /\ ObjectsUnchanged

\* chunk_document lines 302-304: _fallback_chunking returns a list of its own
ReturnFallback ==
    \E content \in {<<>>, <<"text">>} :
        /\ hpc = "walking"
        /\ heap' = IF content = <<>> THEN Append(heap, ListObject(<<>>))
                   ELSE heap \o <<DictObject({}), ChunkObject(content, Len(heap) + 1),
                                  ListObject(<<Len(heap) + 2>>)>>
        /\ handed' = Append(handed, Len(heap'))
        /\ hpc' = "idle"
        /\ UNCHANGED self_ref
        /\ ObjectsUnchanged

NextObjects ==
    StartDocument \/ Accumulate \/ FinalizeDuringWalk \/ ReturnSelfChunks \/ ReturnFallback

SpecObjects == InitObjects /\ [][NextObjects]_vars

\* the dicts that have been appended to a list
AppendedIds(h) == UNION {Range(h[k].items) : k \in 1..Len(h)}

\* the text and the link table of a segment
ChunkValue(h, id) ==
    [page_content |-> h[id].page_content, metadata |-> h[h[id].metadata].entries]

ListValue(h, id) == [k \in 1..Len(h[id].items) |-> ChunkValue(h, h[id].items[k])]

\* C29: no step changes the text or the link table of a dict that is in a list, and no
\* step changes a list that chunk_document has returned
C29_SegmentsTerminal ==
    [][/\ \A id \in AppendedIds(heap) : ChunkValue(heap', id) = ChunkValue(heap, id)
       /\ \A k \in 1..Len(handed) : ListValue(heap', handed[k]) = ListValue(heap, handed[k])]_vars

\* a second document has a segment with a link while the list of the first, returned
\* with a segment, is in the caller's hands, and text is being accumulated
C29_Witness ==
    /\ hpc = "walking"
    /\ Len(handed) = 1
    /\ heap[handed[1]].items # <<>>
    /\ self_ref.chunks # handed[1]
    /\ \E id \in Range(heap[self_ref.chunks].items) : ChunkValue(heap, id).metadata # {}
    /\ heap[self_ref.current_chunk].page_content # <<>>

(* ------------------ chunk_document called again ------------------------- *)
(* One document that fits the budget, given as the flat fragment of its     *)
(* links, is chunked several times by the same process: uuid.uuid4 hands    *)
(* out an identifier it has not handed out before at every draw.            *)
MaxRuns == 2

\* HtmlCleaner._process_html_links from node k on, uuids drawn from the generator
RECURSIVE DrawHtmlLinks(_, _, _, _)
DrawHtmlLinks(tree, metadata, k, n) ==
    IF k > Len(tree) THEN [soup |-> tree, metadata |-> metadata, drawn |-> n]
    ELSE IF tree[k].kind # "a" THEN DrawHtmlLinks(tree, metadata, k + 1, n)
    ELSE IF tree[k].text = ""
    THEN DrawHtmlLinks([tree EXCEPT ![k] = TextPiece("")], metadata, k + 1, n)
    ELSE IF StartsWithHttp(tree[k].text)
    THEN DrawHtmlLinks([tree EXCEPT ![k] = PlaceholderPiece(Uuid4(n + 1))],
                       Put(metadata, Uuid4(n + 1), tree[k].href), k + 1, n + 1)
    ELSE DrawHtmlLinks([tree EXCEPT ![k] = PlaceholderPiece(tree[k].text)],
                       Put(metadata, tree[k].text, tree[k].href), k + 1, n)

\* HtmlCleaner.process_links
DrawProcessLinks(tree, answers, n) ==
    [page_content |->
         DrawHtmlLinks(ProcessConfluenceLinks(tree, answers, EmptyDict, 1).soup,
                       EmptyDict, 1, n).soup,
     metadata |->
         Merge(ProcessConfluenceLinks(tree, answers, EmptyDict, 1).metadata,
               DrawHtmlLinks(ProcessConfluenceLinks(tree, answers, EmptyDict, 1).soup,
                             EmptyDict, 1, n).metadata),
     drawn |->
         DrawHtmlLinks(ProcessConfluenceLinks(tree, answers, EmptyDict, 1).soup,
                       EmptyDict, 1, n).drawn]

\* chunk_document on a document within the budget: count_tokens processes the links
\* once (line 270, from line 374), _finalize_chunk once more (line 535), and the
\* segment is what the second pass made; a document without text gives no segment
ChunkWithinBudget(tree, answers, n) ==
    [segments |->
         IF tree = <<>> THEN <<>>
         ELSE <<[page_content |->
                     DrawProcessLinks(tree, answers, DrawProcessLinks(tree, answers, n).drawn)
                         .page_content,
                 metadata |->
                     DrawProcessLinks(tree, answers, DrawProcessLinks(tree, answers, n).drawn)
                         .metadata]>>,
     drawn |->
         IF tree = <<>> THEN n
         ELSE DrawProcessLinks(tree, answers, DrawProcessLinks(tree, answers, n).drawn).drawn]

InitRuns ==
    /\ fragment \in Fragments
    /\ soup = fragment
    /\ site \in Sites
    /\ link_metadata = EmptyDict
    /\ lpc = "idle"
    /\ drawn = 0
    /\ runs = <<>>
    /\ chunk_token_limit = 1 /\ overlap = 0 /\ overlap_arg = 0
    /\ NoChunker /\ NoBatch /\ NoResolver /\ NoClean /\ NoBackup
    /\ NoFetch /\ NoEmbed /\ NoHeap /\ NoChroma /\ NoChat

\* one call of chunk_document on the document
ChunkDocumentAgain ==
    /\ Len(runs) < MaxRuns
    /\ runs' = Append(runs, ChunkWithinBudget(fragment, site, drawn).segments)
    /\ drawn' = ChunkWithinBudget(fragment, site, drawn).drawn
    /\ UNCHANGED <<chunk_token_limit, overlap, overlap_arg, chunkerVars, pageVars, linkVars,
                   resolverVars, cleanVars, backupVars, fetchVars, embedVars, heapVars,
                   store, update_call, chat_log>>

NextRuns == ChunkDocumentAgain

SpecRuns == InitRuns /\ [][NextRuns]_vars

\* C39: two calls of chunk_document on the same document return the same segments:
\* the same texts and the same link tables
C39_SameDocumentSameSegments ==
    \A a, b \in 1..Len(runs) : runs[a] = runs[b]

(* ------------------------------ ChromaClient ---------------------------- *)
(* The server holds collections, each a name and its entries.  A document   *)
(* handed to update is a dict with the key page_content or a plain string.  *)
(* Any call to the server may fail; fault names the call that does.         *)
MaxEntries == 2

MaxUpdates == 2

DictDocument(t) == [type |-> "dict", value |-> t]

StrDocument(t) == [type |-> "str", value |-> t]

Faults == {"none", "list", "list_again", "delete", "create", "add"}

\* collection_exists, lines 34-35
CollectionExists(collections, collection_name) ==
    \E k \in 1..Len(collections) : collections[k].name = collection_name

Without(collections, collection_name) ==
    SelectSeq(collections, LAMBDA col : col.name # collection_name)

EntriesOf(collections, collection_name) ==
    collections[CHOOSE k \in 1..Len(collections) :
                    collections[k].name = collection_name].entries

UpdateResult(collections, success, message) ==
    [store |-> collections, result |-> [success |-> success, message |-> message]]

\* _validate_inputs, lines 141-150: TRUE when no ValueError is raised
ValidateInputs(collection_name, embeddings, docs, metas) ==
    collection_name # "" /\ docs # <<>> /\ embeddings # <<>>
        /\ ~(metas.given /\ metas.items # <<>> /\ Len(metas.items) # Len(embeddings))

\* delete_collection, lines 47-64
DeleteCollection(collections, collection_name, fault) ==
    IF fault = "list_again" THEN UpdateResult(collections, FALSE, "Unexpected error")
    ELSE IF ~CollectionExists(collections, collection_name)
    THEN UpdateResult(collections, TRUE, "does not exist")
    ELSE IF fault = "delete" THEN UpdateResult(collections, FALSE, "Unexpected error")
    ELSE UpdateResult(Without(collections, collection_name), TRUE, "successfully deleted")

\* collection.add as the server performs it: the lists must have one length
AddAccepts(embeddings, docs, metas) ==
    /\ Len(docs) = Len(embeddings)
    /\ metas.given => Len(metas.items) = Len(embeddings)

\* lines 101-108: the entries collection.add stores
NewEntries(embeddings, docs, metas) ==
    [k \in 1..Len(embeddings) |->
        [document |-> docs[k].value, embedding |-> embeddings[k],
         metadata |-> IF metas.given THEN metas.items[k] ELSE "None"]]

\* update lines 95-113, on the server as line 93 left it
CreateAndAdd(collections, collection_name, embeddings, docs, metas, fault) ==
    IF fault = "create" THEN UpdateResult(collections, FALSE, "Unexpected error")
    ELSE IF \E k \in 1..Len(docs) : docs[k].type # "dict"
    THEN UpdateResult(Append(collections, [name |-> collection_name, entries |-> <<>>]),
                FALSE, "Unexpected error")
    ELSE IF ~AddAccepts(embeddings, docs, metas)
    THEN UpdateResult(Append(collections, [name |-> collection_name, entries |-> <<>>]),
                FALSE, "Validation error")
    ELSE IF fault = "add"
    THEN UpdateResult(Append(collections, [name |-> collection_name, entries |-> <<>>]),
                FALSE, "Unexpected error")
    ELSE UpdateResult(Append(collections, [name |-> collection_name,
                                     entries |-> NewEntries(embeddings, docs, metas)]),
                TRUE, "successfully updated")

\* ChromaClient.update, lines 85-120
UpdateCollection(collections, collection_name, embeddings, docs, metas, fault) ==
    IF ~ValidateInputs(collection_name, embeddings, docs, metas)
    THEN UpdateResult(collections, FALSE, "Validation error")
    ELSE IF fault = "list" THEN UpdateResult(collections, FALSE, "Unexpected error")
    ELSE IF ~CollectionExists(collections, collection_name)
    THEN CreateAndAdd(collections, collection_name, embeddings, docs, metas, fault)
    ELSE IF ~DeleteCollection(collections, collection_name, fault).result.success
    THEN DeleteCollection(collections, collection_name, fault)
    ELSE CreateAndAdd(DeleteCollection(collections, collection_name, fault).store,
                      collection_name, embeddings, docs, metas, fault)

DocumentLists ==
    UNION {[1..n -> {DictDocument("a"), StrDocument("a")}] : n \in 0..MaxEntries}

EmbeddingLists == {[k \in 1..n |-> <<"vector", k>>] : n \in 0..MaxEntries}

MetadataLists ==
    {[given |-> FALSE, items |-> <<>>]}
        \cup {[given |-> TRUE, items |-> [k \in 1..n |-> "meta"]] : n \in 0..MaxEntries}

\* a server with or without the collection, and another collection beside it
InitChroma ==
    /\ store \in {<<>>,
                  <<[name |-> "docs", entries |-> <<"old">>]>>,
                  <<[name |-> "other", entries |-> <<"kept">>],
                    [name |-> "docs", entries |-> <<"old">>]>>}
    /\ update_call = <<>>
    /\ chunk_token_limit = 1 /\ overlap = 0 /\ overlap_arg = 0
    /\ NoChunker /\ NoBatch /\ NoLinks /\ NoResolver /\ NoClean /\ NoBackup
    /\ NoFetch /\ NoEmbed /\ NoHeap /\ NoChat /\ NoRuns

\* one call of ChromaClient.update
Update ==
    \E collection_name \in {"", "docs"}, embeddings \in EmbeddingLists,
       docs \in DocumentLists, metas \in MetadataLists, fault \in Faults :
        /\ IF update_call = <<>> THEN TRUE ELSE update_call.nth < MaxUpdates
        /\ update_call' =
               [collection_name |-> collection_name, embeddings |-> embeddings,
                documents |-> docs, metadatas |-> metas, fault |-> fault, before |-> store,
                nth |-> IF update_call = <<>> THEN 1 ELSE update_call.nth + 1,
                result |-> UpdateCollection(store, collection_name, embeddings, docs, metas,
                                            fault).result]
        /\ store' = UpdateCollection(store, collection_name, embeddings, docs, metas,
                                     fault).store
        /\ UNCHANGED <<chunk_token_limit, overlap, overlap_arg, chunkerVars, pageVars,
                       linkVars, resolverVars, cleanVars, backupVars, fetchVars, embedVars,
                       heapVars, chat_log, drawn, runs>>

NextChroma == Update

SpecChroma == InitChroma /\ [][NextChroma]_vars

\* the arguments the claim says are refused
Refused(call) ==
    \/ call.collection_name = ""
    \/ call.documents = <<>>
    \/ call.embeddings = <<>>
    \/ call.metadatas.given /\ Len(call.metadatas.items) # Len(call.embeddings)

\* C34: for an empty name, an empty list of documents or of embeddings, or a metadata
\* list of another length than the embeddings, update returns success = False with a
\* validation message and the server is as it was
C34_RefusedBeforeAnyChange ==
    (update_call # <<>> /\ Refused(update_call))
        => /\ ~update_call.result.success
           /\ update_call.result.message = "Validation error"
           /\ store = update_call.before

\* a call that _validate_inputs refuses leaves the server as it was
ValidationErrorKeepsStore ==
    (/\ update_call # <<>>
     /\ ~ValidateInputs(update_call.collection_name, update_call.embeddings,
                        update_call.documents, update_call.metadatas))
        => ~update_call.result.success /\ store = update_call.before

\* C37: when update returns success = False, a collection of that name that existed
\* before the call exists with the entries it had
C37_FailureKeepsOldCollection ==
    (/\ update_call # <<>>
     /\ ~update_call.result.success
     /\ CollectionExists(update_call.before, update_call.collection_name))
        => /\ CollectionExists(store, update_call.collection_name)
           /\ EntriesOf(store, update_call.collection_name)
                  = EntriesOf(update_call.before, update_call.collection_name)

(* ------------------------------ event_handler --------------------------- *)
(* The indexing pipeline after fetching: process_pages, the embedder, then  *)
(* ChromaClient.update on the lists process_pages returned.                 *)
COLLECTION_NAME == "collection_text-embedding-005_512_512"

\* process_pages line 782: the documents list holds the segment texts themselves
PipelineDocuments(texts) == [k \in 1..Len(texts) |-> StrDocument(texts[k])]

InitPipeline ==
    /\ pages \in Batches
    /\ keep_tags \in KeepTagsChoices
    /\ chunk_token_limit \in PageBudgets
    /\ overlap \in Overlaps
    /\ idx = 1
    /\ documents = <<>>
    /\ metadatas = <<>>
    /\ empty_pages = <<>>
    /\ ppc = "loop"
    /\ NoChunker
    /\ overlap_arg = overlap
    /\ NoLinks /\ NoResolver /\ NoClean /\ NoBackup
    /\ NoFetch /\ NoEmbed /\ NoHeap /\ NoChat /\ NoRuns
    /\ store \in {<<>>, <<[name |-> COLLECTION_NAME, entries |-> <<"old">>]>>}
    /\ update_call = <<>>

\* main.py lines 83-92: one embedding per document, then update
UpdateFromPipeline ==
    \E fault \in Faults :
        /\ ppc = "returned"
        /\ update_call = <<>>
        /\ update_call' =
               [collection_name |-> COLLECTION_NAME,
                embeddings |-> GetEmbeddingsBatch(documents),
                documents |-> PipelineDocuments(documents),
                metadatas |-> [given |-> TRUE, items |-> metadatas],
                fault |-> fault, before |-> store, nth |-> 1,
                result |-> UpdateCollection(store, COLLECTION_NAME,
                                            GetEmbeddingsBatch(documents),
                                            PipelineDocuments(documents),
                                            [given |-> TRUE, items |-> metadatas],
                                            fault).result]
        /\ store' = UpdateCollection(store, COLLECTION_NAME, GetEmbeddingsBatch(documents),
                                     PipelineDocuments(documents),
                                     [given |-> TRUE, items |-> metadatas], fault).store
        /\ UNCHANGED <<chunk_token_limit, overlap, overlap_arg, chunkerVars, pageVars,
                       linkVars, resolverVars, cleanVars, backupVars, fetchVars, embedVars,
                       heapVars, chat_log, drawn, runs>>

NextPipeline == ProcessPage \/ ReturnPages \/ UpdateFromPipeline

SpecPipeline == InitPipeline /\ [][NextPipeline]_vars

\* process_pages hands over as many metadata items as documents
PipelineListsMatch == ppc = "returned" => Len(metadatas) = Len(documents)

\* C38: when process_pages returned a non-empty list of segment texts and no call to the
\* server fails, update stores one entry per segment and returns success = True
C38_PipelineSegmentsStored ==
    (update_call # <<>> /\ update_call.documents # <<>> /\ update_call.fault = "none")
        => /\ update_call.result.success
           /\ CollectionExists(store, COLLECTION_NAME)
           /\ Len(EntriesOf(store, COLLECTION_NAME)) = Len(update_call.documents)

(* -------------------------------- chat_app ------------------------------ *)
(* One Pub/Sub delivery is handled by one call of chat_app.  The decoded    *)
(* event is a JSON object; a key that is missing reads as "absent", which   *)
(* is what .get returns for it.  chat_log is the last call and its number.  *)
MaxEvents == 2

\* Python truth of a string or None
Truthy(value) == value \notin {"absent", ""}

\* the places where process_query can fail
QueryFaults == {"none", "retrieve", "generate", "parse", "format"}

ChatEvents ==
    [has_data : BOOLEAN,
     type : {"absent", "MESSAGE", "ADDED_TO_SPACE"},
     text : {"absent", "", "question"},
     space_name : {"absent", "", "spaces/A"},
     thread_name : {"absent", "", "threads/T"}]

\* process_query lines 101-152: the body of the try
TryProcessQuery(query, fault) ==
    IF fault = "none" THEN [exc |-> "", type |-> "str", value |-> "answer"]
    ELSE [exc |-> fault, type |-> "NoneType", value |-> "absent"]

\* process_query lines 100-155
ProcessQuery(query, fault) ==
    IF TryProcessQuery(query, fault).exc = "" THEN TryProcessQuery(query, fault)
    ELSE [exc |-> "", type |-> "str", value |-> "Sorry, an error occurred"]

\* a variant of line 64 that asks for both to be missing
MissingSpaceAndThread(space_name, thread_name) ==
    ~Truthy(space_name) /\ ~Truthy(thread_name)

\* line 64
MissingSpaceOrThread(space_name, thread_name) ==
    ~Truthy(space_name) \/ ~Truthy(thread_name)

\* lines 51-56: the calls of process_query the handler makes
QueriesMade(event, fault) ==
    IF event.has_data /\ event.type = "MESSAGE" /\ Truthy(event.text)
    THEN <<ProcessQuery(event.text, fault)>>
    ELSE <<>>

\* lines 51-56
ProcessedResponse(event, fault) ==
    IF QueriesMade(event, fault) = <<>> THEN "Sorry, I couldn't process your request."
    ELSE QueriesMade(event, fault)[1].value

\* lines 70-76: the requests handed to chat.create_message
MessagesSent(event, fault) ==
    IF /\ event.has_data
       /\ event.type = "MESSAGE"
       /\ ~MissingSpaceOrThread(event.space_name, event.thread_name)
    THEN <<[parent |-> event.space_name, text |-> ProcessedResponse(event, fault),
            thread |-> event.thread_name]>>
    ELSE <<>>

\* lines 44-81: what chat_app returns
ChatAppReturns(event, send_ok) ==
    IF ~event.has_data THEN "error: No message data found"
    ELSE IF event.type # "MESSAGE" THEN "status: ignored"
    ELSE IF MissingSpaceOrThread(event.space_name, event.thread_name)
    THEN "error: Missing space or thread information"
    ELSE IF send_ok THEN "chat_response"
    ELSE "error: Error sending message"

InitChat ==
    /\ chat_log = <<>>
    /\ chunk_token_limit = 1 /\ overlap = 0 /\ overlap_arg = 0
    /\ NoChunker /\ NoBatch /\ NoLinks /\ NoResolver /\ NoClean /\ NoBackup
    /\ NoFetch /\ NoEmbed /\ NoHeap /\ NoChroma /\ NoRuns

\* one call of chat_app
ChatApp ==
    \E event \in ChatEvents, fault \in QueryFaults, send_ok \in BOOLEAN :
        /\ IF chat_log = <<>> THEN TRUE ELSE chat_log.nth < MaxEvents
        /\ chat_log' = [event |-> event,
                        queries |-> QueriesMade(event, fault),
                        sent |-> MessagesSent(event, fault),
                        returned |-> ChatAppReturns(event, send_ok),
                        nth |-> IF chat_log = <<>> THEN 1 ELSE chat_log.nth + 1]
        /\ UNCHANGED <<chunk_token_limit, overlap, overlap_arg, chunkerVars, pageVars,
                       linkVars, resolverVars, cleanVars, backupVars, fetchVars, embedVars,
                       heapVars, store, update_call, drawn, runs>>

NextChat == ChatApp

SpecChat == InitChat /\ [][NextChat]_vars

Handled == chat_log # <<>>

\* C40: a call of chat_app sends at most one message, and only for a MESSAGE event; an
\* event of another type returns "ignored" with no query processed and nothing sent; a
\* MESSAGE event without a space name or a thread name returns an error with nothing
\* sent; no call of process_query raises, and each returns a string
C40_AtMostOneMessagePerEvent ==
    Handled =>
        /\ Len(chat_log.sent) <= 1
        /\ chat_log.sent # <<>> => chat_log.event.type = "MESSAGE"
        /\ (chat_log.event.has_data /\ chat_log.event.type # "MESSAGE")
               => /\ chat_log.returned = "status: ignored"
                  /\ chat_log.queries = <<>>
                  /\ chat_log.sent = <<>>
        /\ (/\ chat_log.event.has_data
            /\ chat_log.event.type = "MESSAGE"
            /\ \/ ~Truthy(chat_log.event.space_name)
               \/ ~Truthy(chat_log.event.thread_name))
               => /\ chat_log.returned = "error: Missing space or thread information"
                  /\ chat_log.sent = <<>>
        /\ \A k \in 1..Len(chat_log.queries) :
               chat_log.queries[k].exc = "" /\ chat_log.queries[k].type = "str"

\* a MESSAGE event with a space name but no thread name, whose query failed inside
\* process_query, was handled
C40_Witness ==
    /\ Handled
    /\ chat_log.event.has_data
    /\ chat_log.event.type = "MESSAGE"
    /\ Truthy(chat_log.event.space_name)
    /\ ~Truthy(chat_log.event.thread_name)
    /\ chat_log.queries # <<>>
    /\ chat_log.queries[1].value = "Sorry, an error occurred"
    /\ chat_log.returned = "error: Missing space or thread information"

=============================================================================
